---- MODULE Spec2Model ----
(***************************************************************************)
(* Model of koishi-plugin-image-tools: the image operations of src/ops.ts  *)
(* and their helpers of the op-utils module (src/operations.ts:205-722).   *)
(*                                                                         *)
(* A MemoryImage is an object of a heap.  As in image-in-browser, every    *)
(* object is the first element of its own `frames` array; the frames of an *)
(* animation are further objects appended to the array of the first one.   *)
(* Strings that the code matches against regular expressions are modelled  *)
(* as sequences of one-character strings.                                  *)
(***************************************************************************)
EXTENDS Integers, Sequences, FiniteSets, TLC

VARIABLES pc, heap, images, input, call, outcome, trail,
          tasks, sending, tmpFiles, reply

\* the state of the command handler of src/index.tsx: the concurrent tasks,
\* the generator of the chunks, the temporary directories, the reply
delivery == <<tasks, sending, tmpFiles, reply>>

vars == <<pc, heap, images, input, call, outcome, trail, delivery>>

(***************************************************************************)
(* Bounds of the model.                                                    *)
(***************************************************************************)
MaxFrames == 3
MaxImages == 3
MaxResubmit == 1

\* frame durations (ms) the decoded inputs may carry
Durations == {0, 10, 40, 100}

\* the loop counts the files given may carry (0: for ever)
LoopCounts == {0, 3}

\* the shapes (frame count, width, height) of the images given to the joins
Shapes ==
  { [n |-> 1, w |-> 100, h |-> 50], [n |-> 1, w |-> 100, h |-> 80],
    [n |-> 2, w |-> 30, h |-> 70], [n |-> 1, w |-> 7, h |-> 3] }

(***************************************************************************)
(* Numbers.  Durations are integers; the two non-finite results a JS       *)
(* division can give are kept apart from every finite duration.            *)
(***************************************************************************)
Infinity == 0 - 1
NaN == 0 - 2

IsFinite(v) == v >= 0

\* v < c as JS evaluates it: false for Infinity and NaN
Less(v, c) == IsFinite(v) /\ v < c

\* Math.round(n / d) for n >= 0, d >= 0 (half rounds up; x/0 is Infinity, 0/0 NaN)
RoundDiv(n, d) ==
  IF d = 0 THEN (IF n = 0 THEN NaN ELSE Infinity)
  ELSE (2 * n + d) \div (2 * d)

Max(a, b) == IF a >= b THEN a ELSE b

RECURSIVE SumSeq(_)
SumSeq(s) == IF s = <<>> THEN 0 ELSE Head(s) + SumSeq(Tail(s))

RECURSIVE Pow10(_)
Pow10(k) == IF k = 0 THEN 1 ELSE 10 * Pow10(k - 1)

(***************************************************************************)
(* Array helpers of JS.                                                    *)
(***************************************************************************)
\* arr.slice(1, -1)
SliceMiddle(arr) ==
  IF Len(arr) <= 2 THEN <<>> ELSE SubSeq(arr, 2, Len(arr) - 1)

\* arr.reverse()
ArrayReverse(arr) == [i \in 1..Len(arr) |-> arr[Len(arr) + 1 - i]]

RECURSIVE Flat(_)
Flat(ss) == IF ss = <<>> THEN <<>> ELSE Head(ss) \o Flat(Tail(ss))

(***************************************************************************)
(* OperationError and results.                                             *)
(***************************************************************************)
NoBlobs == <<>>

OperationError(key, params) ==
  [ok |-> FALSE, key |-> key, params |-> params, blobs |-> NoBlobs]

Success(blobs) == [ok |-> TRUE, key |-> "", params |-> <<>>, blobs |-> blobs]

NoOutcome == [ok |-> FALSE, key |-> "none", params |-> <<>>, blobs |-> NoBlobs]

(***************************************************************************)
(* MemoryImage objects.  The pixels of an object are the layers drawn on   *)
(* its canvas, bottom first: the pixels of source picture `src` scaled to  *)
(* w x h with their top left corner at (x, y), or a fill of one colour.    *)
(***************************************************************************)
NoColor == <<>>

Layer(src, x, y, w, h) ==
  [src |-> src, x |-> x, y |-> y, w |-> w, h |-> h, color |-> NoColor]

\* the pixels of a decoded picture: the picture itself, filling the canvas
Pixels(src, w, h) == <<Layer(src, 0, 0, w, h)>>

NewObject(id, px, w, h, dur) ==
  [px |-> px, width |-> w, height |-> h, frameDuration |-> dur, frames |-> <<id>>,
   loopCount |-> 0]

\* image.hasAnimation
hasAnimation(h, id) == Len(h[id].frames) > 1

\* the (pixels, duration) pairs of an image's frames, in order
FrameOf(h, f) ==
  [px |-> h[f].px, dur |-> h[f].frameDuration, w |-> h[f].width, h |-> h[f].height]

FrameList(h, id) == [i \in 1..Len(h[id].frames) |-> FrameOf(h, h[id].frames[i])]

\* a copy that does not take over the frame's duration
MemoryImageFromNoDuration(h, other) ==
  Append(h, NewObject(Len(h) + 1, h[other].px, h[other].width, h[other].height, 0))

\* MemoryImage.from(other, true): a copy of one frame, without the animation
MemoryImageFrom(h, other) ==
  Append(h, NewObject(Len(h) + 1, h[other].px, h[other].width, h[other].height,
                      h[other].frameDuration))

\* array.push on an object's frames
FramesPush(h, id, more) == [h EXCEPT ![id].frames = @ \o more]

(***************************************************************************)
(* Encoding.                                                               *)
(***************************************************************************)
\* the loop count of a file written by an encoder that is given none
DefaultLoopCount == 0

\* a PNG holds the pixels of the one object it is given; it carries no duration
imageSavePng(h, id) ==
  [type |-> "image/png", width |-> h[id].width, height |-> h[id].height,
   frames |-> <<[FrameOf(h, id) EXCEPT !.dur = 0]>>,
   loopCount |-> DefaultLoopCount]

\* a GIF holds, for every element of image.frames, its pixels and its delay
imageSaveGif(h, id) ==
  [type |-> "image/gif", width |-> h[id].width, height |-> h[id].height,
   frames |-> [i \in 1..Len(h[id].frames) |-> FrameOf(h, h[id].frames[i])],
   loopCount |-> DefaultLoopCount]

\* every image saved as a PNG of its first frame
imageSaveAlwaysPng(h, id) == imageSavePng(h, id)

imageSave(h, id) ==
  IF hasAnimation(h, id) THEN imageSaveGif(h, id) ELSE imageSavePng(h, id)

(***************************************************************************)
(* Decoding: one object per decoded frame, frames added to the first.      *)
(***************************************************************************)
RECURSIVE DecodeFrames(_, _, _)
DecodeFrames(h, root, fs) ==
  IF fs = <<>> THEN h
  ELSE LET id == Len(h) + 1
           h1 == Append(h, NewObject(id, Head(fs).px, Head(fs).w, Head(fs).h, Head(fs).dur))
           h2 == IF root = 0 THEN h1 ELSE FramesPush(h1, root, <<id>>)
       IN DecodeFrames(h2, IF root = 0 THEN id ELSE root, Tail(fs))

readGif(h, blob) == DecodeFrames(h, 0, blob.frames)

\* readImage: a GIF goes through readGif, any other type through the library's
\* decoder, which gives the image the loop count of the file; both give one
\* object per frame of the file
readImage(h, blob) ==
  IF blob.type = "image/gif" THEN readGif(h, blob)
  ELSE [DecodeFrames(h, 0, blob.frames) EXCEPT ![Len(h) + 1].loopCount = blob.loopCount]

(***************************************************************************)
(* Checks shared by the operations.                                        *)
(***************************************************************************)
\* an image of two frames taken for a still one
ensureAnimationMoreThanTwo(h, id) ==
  IF Len(h[id].frames) <= 2 THEN OperationError("image-must-animated", <<>>)
  ELSE NoOutcome

\* the error ensureAnimation throws, or NoOutcome
ensureAnimation(h, id) ==
  IF ~hasAnimation(h, id) THEN OperationError("image-must-animated", <<>>)
  ELSE NoOutcome

Threw(o) == o # NoOutcome

(***************************************************************************)
(* gifReverse, gifObverseReverse, gifSplit.  Each returns the heap after   *)
(* the call and the outcome.                                               *)
(***************************************************************************)
Ret(h, o) == [heap |-> h, outcome |-> o]

\* gifReverse pushing frames.slice(1) instead of frames.slice(1, -1)
gifReverseSliceToEnd(h, image) ==
  IF Threw(ensureAnimation(h, image)) THEN Ret(h, ensureAnimation(h, image))
  ELSE LET frames == h[image].frames
           h1 == MemoryImageFrom(h, frames[1])
           firstFrame == Len(h1)
           newImage == frames[Len(frames)]
           h2 == FramesPush(h1, newImage,
                            ArrayReverse(Tail(frames)) \o <<firstFrame>>)
       IN Ret(h2, Success(<<imageSave(h2, newImage)>>))

gifReverse(h, image) ==
  IF Threw(ensureAnimation(h, image)) THEN Ret(h, ensureAnimation(h, image))
  ELSE LET frames == h[image].frames
           h1 == MemoryImageFrom(h, frames[1])
           firstFrame == Len(h1)
           newImage == frames[Len(frames)]
           h2 == FramesPush(h1, newImage,
                            ArrayReverse(SliceMiddle(frames)) \o <<firstFrame>>)
       IN Ret(h2, Success(<<imageSave(h2, newImage)>>))

\* gifObverseReverse pushing the whole reversed array
gifObverseReverseWithEnds(h, image) ==
  IF Threw(ensureAnimation(h, image)) THEN Ret(h, ensureAnimation(h, image))
  ELSE LET frames == h[image].frames
           h1 == FramesPush(h, image, ArrayReverse(frames))
       IN Ret(h1, Success(<<imageSave(h1, image)>>))

gifObverseReverse(h, image) ==
  IF Threw(ensureAnimation(h, image)) THEN Ret(h, ensureAnimation(h, image))
  ELSE LET frames == h[image].frames
           h1 == FramesPush(h, image, ArrayReverse(SliceMiddle(frames)))
       IN Ret(h1, Success(<<imageSave(h1, image)>>))

gifSplit(h, image) ==
  IF Threw(ensureAnimation(h, image)) THEN Ret(h, ensureAnimation(h, image))
  ELSE Ret(h, Success([i \in 1..Len(h[image].frames) |->
                         imageSavePng(h, h[image].frames[i])]))

(***************************************************************************)
(* Strings are sequences of characters; the two CJK characters the rate    *)
(* patterns accept are written by their code points.                       *)
(***************************************************************************)
Digits == {"0", "1", "2", "3", "4", "5", "6", "7", "8", "9"}

DigitVal(c) ==
  CASE c = "0" -> 0 [] c = "1" -> 1 [] c = "2" -> 2 [] c = "3" -> 3
    [] c = "4" -> 4 [] c = "5" -> 5 [] c = "6" -> 6 [] c = "7" -> 7
    [] c = "8" -> 8 [] c = "9" -> 9

AllDigits(s) == \A i \in 1..Len(s) : s[i] \in Digits

\* parseInt of a string of digits
RECURSIVE ParseInt(_)
ParseInt(s) ==
  IF s = <<>> THEN 0
  ELSE 10 * ParseInt(SubSeq(s, 1, Len(s) - 1)) + DigitVal(s[Len(s)])

\* length of the longest prefix made of digits and dots
RECURSIVE NumPrefixLen(_)
NumPrefixLen(s) ==
  IF s = <<>> \/ Head(s) \notin (Digits \cup {"."}) THEN 0
  ELSE 1 + NumPrefixLen(Tail(s))

DotPositions(s) == {i \in 1..Len(s) : s[i] = "."}

\* s matches \d{0,3}\.?\d{1,3} as a whole
NumMatch(s) ==
  \/ /\ DotPositions(s) = {}
     /\ Len(s) \in 1..6
  \/ /\ Cardinality(DotPositions(s)) = 1
     /\ LET k == CHOOSE i \in DotPositions(s) : TRUE
        IN  k - 1 \in 0..3 /\ Len(s) - k \in 1..3

\* parseFloat of a string NumMatch accepts, as the fraction n / d
parseFloat(s) ==
  IF DotPositions(s) = {} THEN [n |-> ParseInt(s), d |-> 1]
  ELSE LET k == CHOOSE i \in DotPositions(s) : TRUE
       IN  [n |-> ParseInt(SubSeq(s, 1, k - 1) \o SubSeq(s, k + 1, Len(s))),
            d |-> Pow10(Len(s) - k)]

NumPart(s) == SubSeq(s, 1, NumPrefixLen(s))
Suffix(s) == SubSeq(s, NumPrefixLen(s) + 1, Len(s))

\* ^(?<group>\d{0,3}\.?\d{1,3})(suffix)$ for a set of suffixes without digits or dots
RateMatch(s, suffixes) == NumMatch(NumPart(s)) /\ Suffix(s) \in suffixes

MultiplierSuffixes == {<<"x">>, <<"X">>, <<"U+500D">>, <<"U+500D", "U+901F">>}
PercentSuffixes == {<<"%">>}
FpsSuffixes == {<<"f", "p", "s">>, <<"F", "P", "S">>}
TimeSuffixes == {<<"s">>, <<"m", "s">>}

\* the four [RegExp, callback] pairs of gifChangeFps, tried in order; the result
\* is the new frame times, or <<>> when no pattern matches (frames are never empty)
multiplierTimes(times, x) == [i \in 1..Len(times) |-> RoundDiv(times[i] * x.d, x.n)]

percentTimes(times, p) ==
  [i \in 1..Len(times) |-> RoundDiv(times[i] * p.d * 100, p.n)]

\* Math.floor in place of Math.round
fpsTimesFloor(times, fps) ==
  [i \in 1..Len(times) |->
     IF fps.n = 0 THEN Infinity ELSE (1000 * fps.d) \div fps.n]

fpsTimes(times, fps) == [i \in 1..Len(times) |-> RoundDiv(1000 * fps.d, fps.n)]

durationTimes(times, time, m) ==
  [i \in 1..Len(times) |->
     IF m THEN RoundDiv(time.n * 1000, time.d) ELSE RoundDiv(time.n, time.d)]

rateSpecMatches(fps) ==
  \/ RateMatch(fps, MultiplierSuffixes)
  \/ RateMatch(fps, PercentSuffixes)
  \/ RateMatch(fps, FpsSuffixes)
  \/ RateMatch(fps, TimeSuffixes)

rateSpecTimes(times, fps) ==
  IF RateMatch(fps, MultiplierSuffixes)
    THEN multiplierTimes(times, parseFloat(NumPart(fps)))
  ELSE IF RateMatch(fps, PercentSuffixes)
    THEN percentTimes(times, parseFloat(NumPart(fps)))
  ELSE IF RateMatch(fps, FpsSuffixes)
    THEN fpsTimes(times, parseFloat(NumPart(fps)))
  ELSE durationTimes(times, parseFloat(NumPart(fps)), Suffix(fps) = <<"m", "s">>)

\* the warning decided on the mean of the frame times
meanBelow20(frameTimes) ==
  (\A i \in 1..Len(frameTimes) : IsFinite(frameTimes[i]))
    /\ SumSeq(frameTimes) < 20 * Len(frameTimes)

\* frameTimes.some((v) => v < 20)
someBelow20(frameTimes) == \E i \in 1..Len(frameTimes) : Less(frameTimes[i], 20)

\* (sum / length).toFixed(2), as a number of hundredths
meanToFixed2(frameTimes) == RoundDiv(SumSeq(frameTimes) * 100, Len(frameTimes))

RECURSIVE setDurations(_, _, _, _)
setDurations(h, frames, frameTimes, i) ==
  IF i > Len(frameTimes) THEN h
  ELSE setDurations([h EXCEPT ![frames[i]].frameDuration = frameTimes[i]],
                    frames, frameTimes, i + 1)

\* the durations set before the warning is decided
gifChangeFpsSetFirst(h, image, fps, force) ==
  IF Threw(ensureAnimation(h, image)) THEN Ret(h, ensureAnimation(h, image))
  ELSE LET frames == h[image].frames
           originalFrameTimes == [i \in 1..Len(frames) |-> h[frames[i]].frameDuration]
       IN IF ~rateSpecMatches(fps)
            THEN Ret(h, OperationError("invalid-arg-format", <<>>))
          ELSE LET frameTimes == rateSpecTimes(originalFrameTimes, fps)
                   h1 == setDurations(h, frames, frameTimes, 1)
               IN IF ~force /\ someBelow20(frameTimes)
                    THEN Ret(h1, OperationError("fps-exceed-range-warn",
                                                <<meanToFixed2(frameTimes)>>))
                  ELSE Ret(h1, Success(<<imageSave(h1, image)>>))

gifChangeFps(h, image, fps, force) ==
  IF Threw(ensureAnimation(h, image)) THEN Ret(h, ensureAnimation(h, image))
  ELSE LET frames == h[image].frames
           originalFrameTimes == [i \in 1..Len(frames) |-> h[frames[i]].frameDuration]
       IN IF ~rateSpecMatches(fps)
            THEN Ret(h, OperationError("invalid-arg-format", <<>>))
          ELSE LET frameTimes == rateSpecTimes(originalFrameTimes, fps)
               IN IF ~force /\ someBelow20(frameTimes)
                    THEN Ret(h, OperationError("fps-exceed-range-warn",
                                               <<meanToFixed2(frameTimes)>>))
                  ELSE LET h1 == setDurations(h, frames, frameTimes, 1)
                       IN Ret(h1, Success(<<imageSave(h1, image)>>))


(***************************************************************************)
(* parseColor.  The result is the (r, g, b) bytes and the alpha in tenths  *)
(* (the alpha pattern allows one decimal, and a fraction below 1 is        *)
(* multiplied by 255 without rounding).                                    *)
(***************************************************************************)
HexDigits ==
  Digits \cup {"a", "b", "c", "d", "e", "f", "A", "B", "C", "D", "E", "F"}

HexVal(c) ==
  CASE c \in Digits -> DigitVal(c)
    [] c \in {"a", "A"} -> 10 [] c \in {"b", "B"} -> 11 [] c \in {"c", "C"} -> 12
    [] c \in {"d", "D"} -> 13 [] c \in {"e", "E"} -> 14 [] c \in {"f", "F"} -> 15

Rest(s, p) == SubSeq(s, p, Len(s))

StartsWith(s, pre) == Len(s) >= Len(pre) /\ SubSeq(s, 1, Len(pre)) = pre

Color(r, g, b, a10) == [ok |-> TRUE, rgb |-> <<r, g, b>>, a10 |-> a10]
NoMatch == [ok |-> FALSE, rgb |-> <<>>, a10 |-> 0]

\* the group `hex` of ^#?(?<hex>(?:[0-9a-fA-F]{3,4}){1,2})$, or <<>>
hexGroup(color) ==
  LET hex == IF color # <<>> /\ Head(color) = "#" THEN Tail(color) ELSE color
  IN IF Len(hex) \in {3, 4, 6, 7, 8} /\ \A i \in 1..Len(hex) : hex[i] \in HexDigits
       THEN hex ELSE <<>>

\* parseInt(hex.repeat(2), 16)
parseOneCharHex(c) == 16 * HexVal(c) + HexVal(c)

\* parseInt(hex.slice(i, i + 2), 16), i counted from 0
parseHexPair(hex, i) == 16 * HexVal(hex[i + 1]) + HexVal(hex[i + 2])

hexColor(hex) ==
  IF Len(hex) < 6
    THEN Color(parseOneCharHex(hex[1]), parseOneCharHex(hex[2]),
               parseOneCharHex(hex[3]),
               IF Len(hex) = 4 THEN 10 * parseOneCharHex(hex[4]) ELSE 2550)
  ELSE Color(parseHexPair(hex, 0), parseHexPair(hex, 2), parseHexPair(hex, 4),
             IF Len(hex) = 8 THEN 10 * parseHexPair(hex, 6) ELSE 2550)

Separators == {",", " ", "\t"}

RECURSIVE DigitRunLen(_)
DigitRunLen(s) ==
  IF s = <<>> \/ Head(s) \notin Digits THEN 0 ELSE 1 + DigitRunLen(Tail(s))

\* (rgba?)?\(? at the start of the string: what follows it
afterColorPrefix(color) ==
  LET s1 == IF StartsWith(color, <<"r", "g", "b", "a">>) THEN Rest(color, 5)
            ELSE IF StartsWith(color, <<"r", "g", "b">>) THEN Rest(color, 4)
            ELSE color
  IN IF s1 # <<>> /\ Head(s1) = "(" THEN Tail(s1) ELSE s1

\* \d{1,3} followed by something that is no digit: [ok, val, rest]
takeComponent(s) ==
  LET k == DigitRunLen(s)
  IN IF k \in 1..3
       THEN [ok |-> TRUE, val |-> ParseInt(SubSeq(s, 1, k)), rest |-> Rest(s, k + 1)]
     ELSE [ok |-> FALSE, val |-> 0, rest |-> s]

\* [,\s]: [ok, rest]
takeSeparator(s) ==
  IF s # <<>> /\ Head(s) \in Separators THEN [ok |-> TRUE, rest |-> Tail(s)]
  ELSE [ok |-> FALSE, rest |-> s]

\* \)?$
atEnd(s) == s = <<>> \/ s = <<")">>

\* ([,\s](?<a>\d{1,3}(\.\d)?))?\)?$ : [ok, has, a10] with a in tenths
takeAlpha(s) ==
  IF atEnd(s) THEN [ok |-> TRUE, has |-> FALSE, a10 |-> 0]
  ELSE LET sep == takeSeparator(s)
           a == takeComponent(sep.rest)
       IN IF ~sep.ok \/ ~a.ok THEN [ok |-> FALSE, has |-> FALSE, a10 |-> 0]
          ELSE IF atEnd(a.rest) THEN [ok |-> TRUE, has |-> TRUE, a10 |-> 10 * a.val]
          ELSE IF Len(a.rest) >= 2 /\ a.rest[1] = "." /\ a.rest[2] \in Digits
                  /\ atEnd(Rest(a.rest, 3))
            THEN [ok |-> TRUE, has |-> TRUE, a10 |-> 10 * a.val + DigitVal(a.rest[2])]
          ELSE [ok |-> FALSE, has |-> FALSE, a10 |-> 0]

\* the groups r, g, b, a of the functional pattern: [ok, r, g, b, has, a10]
functionalGroups(color) ==
  LET r == takeComponent(afterColorPrefix(color))
      s1 == takeSeparator(r.rest)
      g == takeComponent(s1.rest)
      s2 == takeSeparator(g.rest)
      b == takeComponent(s2.rest)
      a == takeAlpha(b.rest)
  IN [ok |-> r.ok /\ s1.ok /\ g.ok /\ s2.ok /\ b.ok /\ a.ok,
      r |-> r.val, g |-> g.val, b |-> b.val, has |-> a.has, a10 |-> a.a10]

\* checkVal on a value in tenths
checkVal10(v10) == v10 >= 0 /\ v10 <= 2550

\* parsedA ? checkVal(parsedA < 1 ? parsedA * 255 : parsedA) : 255, in tenths
alphaOf(m) ==
  IF m.has /\ m.a10 # 0
    THEN (IF m.a10 < 10 THEN m.a10 * 255 ELSE m.a10)
  ELSE 2550

functionalColor(m) ==
  IF checkVal10(10 * m.r) /\ checkVal10(10 * m.g) /\ checkVal10(10 * m.b)
       /\ checkVal10(alphaOf(m))
    THEN Color(m.r, m.g, m.b, alphaOf(m))
  ELSE NoMatch

\* the colour, or NoMatch where the code throws invalid-color
parseColor(color) ==
  IF hexGroup(color) # <<>> THEN hexColor(hexGroup(color))
  ELSE IF functionalGroups(color).ok THEN functionalColor(functionalGroups(color))
  ELSE NoMatch

invalidColor(color) == OperationError("invalid-color", <<color>>)

(***************************************************************************)
(* The image-in-browser calls of the join operations.                      *)
(***************************************************************************)
\* image.convert({ numChannels: 4 }) of an image of one frame: a new object
convert(h, id) ==
  Append(h, [h[id] EXCEPT !.frames = <<Len(h) + 1>>])

\* the layers of a picture resized from ow x oh to nw x nh
resizedPixels(px, ow, oh, nw, nh) ==
  [i \in 1..Len(px) |->
     [px[i] EXCEPT !.x = (px[i].x * nw) \div ow, !.y = (px[i].y * nh) \div oh,
                   !.w = (px[i].w * nw) \div ow, !.h = (px[i].h * nh) \div oh]]

\* Transform.copyResize({ image, width, height }): a resized copy of every
\* frame of the image, the copies being the frames of the first copy
RECURSIVE copyResizeFrames(_, _, _, _, _)
copyResizeFrames(h, root, fs, nw, nh) ==
  IF fs = <<>> THEN h
  ELSE LET id == Len(h) + 1
           f == h[Head(fs)]
           h1 == Append(h, NewObject(id, resizedPixels(f.px, f.width, f.height, nw, nh),
                                     nw, nh, f.frameDuration))
           h2 == IF root = 0 THEN h1 ELSE FramesPush(h1, root, <<id>>)
       IN copyResizeFrames(h2, IF root = 0 THEN id ELSE root, Tail(fs), nw, nh)

copyResize(h, image, nw, nh) == copyResizeFrames(h, 0, h[image].frames, nw, nh)

\* new MemoryImage({ width, height, numChannels: 4 }): a transparent canvas
newMemoryImage(h, w, hh) == Append(h, NewObject(Len(h) + 1, <<>>, w, hh, 0))

\* Draw.compositeImage({ src, dst, dstX, dstY }): the pixels of src itself (its
\* first frame) drawn over those of dst
compositeImage(h, src, dst, dstX, dstY) ==
  [h EXCEPT ![dst].px =
     @ \o [i \in 1..Len(h[src].px) |->
             [h[src].px[i] EXCEPT !.x = @ + dstX, !.y = @ + dstY]]]

\* Draw.compositeImage({ src, dst, center: true })
compositeCentered(h, src, dst) ==
  compositeImage(h, src, dst, (h[dst].width - h[src].width) \div 2,
                 (h[dst].height - h[src].height) \div 2)

\* image.clear(color)
clear(h, id, color) ==
  [h EXCEPT ![id].px =
     <<[src |-> 0, x |-> 0, y |-> 0, w |-> h[id].width, h |-> h[id].height,
        color |-> color]>>]

\* image.addFrame(frame)
addFrame(h, image, frame) ==
  IF h[image].frames[Len(h[image].frames)] # frame
    THEN FramesPush(h, image, <<frame>>) ELSE h

(***************************************************************************)
(* colorMask.                                                              *)
(***************************************************************************)
\* RGBA2RGB
RGBA2RGB(colorTuple) == colorTuple.rgb

\* the pixels of a frame with their hue replaced by that of the colour
maskedPixels(px, color) == [i \in 1..Len(px) |-> [px[i] EXCEPT !.color = color]]

\* processFrame of colorMaskPilUtils: a new image of the size and of the
\* frameDuration of `image`, with the masked pixels of `frame`
colorMaskFrame(h, image, frame, color) ==
  Append(h, NewObject(Len(h) + 1, maskedPixels(h[frame].px, color),
                      h[image].width, h[image].height, h[image].frameDuration))

\* for (const f of image.frames.slice(1)) newImage.addFrame(processFrame(f))
RECURSIVE colorMaskRest(_, _, _, _, _)
colorMaskRest(h, image, newImage, fs, color) ==
  IF fs = <<>> THEN h
  ELSE colorMaskRest(addFrame(colorMaskFrame(h, image, Head(fs), color),
                              newImage, Len(h) + 1),
                     image, newImage, Tail(fs), color)

\* colorMaskPilUtils: the new image is the object Len(h) + 1
colorMaskPilUtils(h, image, color) ==
  colorMaskRest(colorMaskFrame(h, image, image, color), image, Len(h) + 1,
                Tail(h[image].frames), color)

colorMask(h, image, color) ==
  LET colorTuple == parseColor(color)
  IN IF ~colorTuple.ok THEN Ret(h, invalidColor(color))
     ELSE IF colorTuple.a10 # 2550
       THEN Ret(h, OperationError("alpha-not-supported", <<>>))
     ELSE LET h1 == colorMaskPilUtils(h, image, RGBA2RGB(colorTuple))
          IN Ret(h1, Success(<<imageSave(h1, Len(h) + 1)>>))

(***************************************************************************)
(* gifJoin, horizontalJoin, verticalJoin.                                  *)
(***************************************************************************)
\* ensureBigger(value, min) for an optional value
ensureBigger(value, min) ==
  IF value.has /\ value.v < min
    THEN OperationError("value-too-small", <<value.v, min>>)
  ELSE NoOutcome

\* ensureMinImageNum(images, num) for an array of n elements
ensureMinImageNum(n, num) ==
  IF n < num THEN OperationError("image-not-enough", <<num>>) ELSE NoOutcome

\* the default of the parameter num of ensureMinImageNum
DefaultMinImageNum == 2

\* the warning raised only when every image is animated
warnAnimationEvery(h, imgs, optForce) ==
  IF ~optForce /\ \A i \in 1..Len(imgs) : hasAnimation(h, imgs[i])
    THEN OperationError("image-animated-warn", <<>>)
  ELSE NoOutcome

warnAnimation(h, imgs, optForce) ==
  IF ~optForce /\ \E i \in 1..Len(imgs) : hasAnimation(h, imgs[i])
    THEN OperationError("image-animated-warn", <<>>)
  ELSE NoOutcome

\* only the first frame of every image
firstFrames(h, imgs) == [i \in 1..Len(imgs) |-> h[imgs[i]].frames[1]]

\* images.map((v) => v.frames).flat()
pooledFrames(h, imgs) == Flat([i \in 1..Len(imgs) |-> h[imgs[i]].frames])

RECURSIVE MaxOf(_)
MaxOf(s) == IF Len(s) = 1 THEN s[1] ELSE Max(s[1], MaxOf(Tail(s)))

\* Math.max in place of Math.min
joinScaleMax(width, height, fw, fh) ==
  IF width * fh >= height * fw THEN [n |-> width, d |-> fw]
  ELSE [n |-> height, d |-> fh]

\* Math.min(width / f.width, height / f.height), as a fraction
joinScale(width, height, fw, fh) ==
  IF width * fh <= height * fw THEN [n |-> width, d |-> fw]
  ELSE [n |-> height, d |-> fh]

\* the body of the loop of gifJoin for frame f: the heap and the new frame
joinFrame(h, f, width, height, duration) ==
  LET h1 == MemoryImageFrom(h, f)
      h2 == convert(h1, Len(h1))
      noFrameF == Len(h2)
  IN IF width = h[f].width /\ height = h[f].height
       THEN [heap |-> [h2 EXCEPT ![noFrameF].frameDuration = duration],
             fSized |-> noFrameF]
     ELSE LET scale == joinScale(width, height, h[f].width, h[f].height)
              scaleWidth == RoundDiv(h[f].width * scale.n, scale.d)
              scaleHeight == RoundDiv(h[f].height * scale.n, scale.d)
              h3 == copyResize(h2, noFrameF, scaleWidth, scaleHeight)
              src == Len(h3)
              h4 == newMemoryImage(h3, width, height)
              dst == Len(h4)
              h5 == compositeCentered(h4, src, dst)
          IN [heap |-> [h5 EXCEPT ![dst].frameDuration = duration], fSized |-> dst]

RECURSIVE joinFrames(_, _, _, _, _, _)
joinFrames(h, frames, newImage, width, height, duration) ==
  IF frames = <<>> THEN [heap |-> h, newImage |-> newImage]
  ELSE LET r == joinFrame(h, Head(frames), width, height, duration)
       IN IF newImage # 0
            THEN joinFrames(addFrame(r.heap, newImage, r.fSized), Tail(frames),
                            newImage, width, height, duration)
          ELSE joinFrames(r.heap, Tail(frames), r.fSized, width, height, duration)

\* the default of the option duration of gif-join
DefaultDuration == 100

\* the frame time below which the fps warning is raised
MinFrameTime == 20

gifJoin(h, imgs, optDuration, force) ==
  IF Threw(ensureBigger(optDuration, 0)) THEN Ret(h, ensureBigger(optDuration, 0))
  ELSE LET duration == IF optDuration.has THEN optDuration.v ELSE DefaultDuration
           frames == pooledFrames(h, imgs)
       IN IF ~force /\ duration < MinFrameTime
            THEN Ret(h, OperationError("fps-exceed-range-warn", <<duration>>))
          ELSE IF Threw(ensureMinImageNum(Len(frames), DefaultMinImageNum))
            THEN Ret(h, ensureMinImageNum(Len(frames), DefaultMinImageNum))
          ELSE LET width == MaxOf([i \in 1..Len(frames) |-> h[frames[i]].width])
                   height == MaxOf([i \in 1..Len(frames) |-> h[frames[i]].height])
                   r == joinFrames(h, frames, 0, width, height, duration)
               IN Ret(r.heap, Success(<<imageSave(r.heap, r.newImage)>>))

\* the default of the option spacing of the joins
DefaultSpacing == 10

\* the background colour when the option bgColor is not given
TransparentBlack == Color(0, 0, 0, 0)

\* Transform.copyResize with only one side given: the other keeps the ratio
scaledSide(side, from, to) == RoundDiv(side * to, from)

\* images.map((v) => Transform.copyResize({ image: v, height })): the heap and
\* the resized images
RECURSIVE resizeToHeight(_, _, _, _)
resizeToHeight(h, imgs, height, acc) ==
  IF imgs = <<>> THEN [heap |-> h, imagesNew |-> acc]
  ELSE LET v == h[Head(imgs)]
           h1 == copyResize(h, Head(imgs), scaledSide(v.width, v.height, height), height)
       IN resizeToHeight(h1, Tail(imgs), height, Append(acc, Len(h) + 1))

RECURSIVE resizeToWidth(_, _, _, _)
resizeToWidth(h, imgs, width, acc) ==
  IF imgs = <<>> THEN [heap |-> h, imagesNew |-> acc]
  ELSE LET v == h[Head(imgs)]
           h1 == copyResize(h, Head(imgs), width, scaledSide(v.height, v.width, width))
       IN resizeToWidth(h1, Tail(imgs), width, Append(acc, Len(h) + 1))

\* the running offset advanced by the width only, without the spacing
RECURSIVE drawRowNoSpacing(_, _, _, _, _)
drawRowNoSpacing(h, imagesNew, finalImg, offsetX, spacing) ==
  IF imagesNew = <<>> THEN h
  ELSE drawRowNoSpacing(compositeImage(h, Head(imagesNew), finalImg, offsetX, 0),
                        Tail(imagesNew), finalImg,
                        offsetX + h[Head(imagesNew)].width, spacing)

\* imagesNew.forEach: each image drawn at the running offset along x
RECURSIVE drawRow(_, _, _, _, _)
drawRow(h, imagesNew, finalImg, offsetX, spacing) ==
  IF imagesNew = <<>> THEN h
  ELSE drawRow(compositeImage(h, Head(imagesNew), finalImg, offsetX, 0),
               Tail(imagesNew), finalImg,
               offsetX + h[Head(imagesNew)].width + spacing, spacing)

RECURSIVE drawColumn(_, _, _, _, _)
drawColumn(h, imagesNew, finalImg, offsetY, spacing) ==
  IF imagesNew = <<>> THEN h
  ELSE drawColumn(compositeImage(h, Head(imagesNew), finalImg, 0, offsetY),
                  Tail(imagesNew), finalImg,
                  offsetY + h[Head(imagesNew)].height + spacing, spacing)

\* the animation warning raised before the images are counted
joinChecksWarnFirst(h, imgs, bgColor, force) ==
  IF Threw(warnAnimation(h, imgs, force)) THEN warnAnimation(h, imgs, force)
  ELSE IF Threw(ensureMinImageNum(Len(imgs), DefaultMinImageNum))
    THEN ensureMinImageNum(Len(imgs), DefaultMinImageNum)
  ELSE IF bgColor.has /\ bgColor.v # <<>> /\ ~parseColor(bgColor.v).ok
    THEN invalidColor(bgColor.v)
  ELSE NoOutcome

\* what the joins check before they draw: the error thrown, or NoOutcome
joinChecks(h, imgs, bgColor, force) ==
  IF Threw(ensureMinImageNum(Len(imgs), DefaultMinImageNum))
    THEN ensureMinImageNum(Len(imgs), DefaultMinImageNum)
  ELSE IF Threw(warnAnimation(h, imgs, force)) THEN warnAnimation(h, imgs, force)
  ELSE IF bgColor.has /\ bgColor.v # <<>> /\ ~parseColor(bgColor.v).ok
    THEN invalidColor(bgColor.v)
  ELSE NoOutcome

bgColorOf(bgColor) ==
  IF bgColor.has /\ bgColor.v # <<>> THEN parseColor(bgColor.v) ELSE TransparentBlack

horizontalJoin(h, imgs, optSpacing, bgColor, force) ==
  IF Threw(joinChecks(h, imgs, bgColor, force))
    THEN Ret(h, joinChecks(h, imgs, bgColor, force))
  ELSE LET spacing == IF optSpacing.has THEN optSpacing.v ELSE DefaultSpacing
           height == MaxOf([i \in 1..Len(imgs) |-> h[imgs[i]].height])
           r == resizeToHeight(h, imgs, height, <<>>)
           width == SumSeq([i \in 1..Len(imgs) |->
                              r.heap[r.imagesNew[i]].width + spacing]) - spacing
           h1 == newMemoryImage(r.heap, width, height)
           finalImg == Len(h1)
           h2 == clear(h1, finalImg, bgColorOf(bgColor))
           h3 == drawRow(h2, r.imagesNew, finalImg, 0, spacing)
       IN Ret(h3, Success(<<imageSave(h3, finalImg)>>))

verticalJoin(h, imgs, optSpacing, bgColor, force) ==
  IF Threw(joinChecks(h, imgs, bgColor, force))
    THEN Ret(h, joinChecks(h, imgs, bgColor, force))
  ELSE LET spacing == IF optSpacing.has THEN optSpacing.v ELSE DefaultSpacing
           width == MaxOf([i \in 1..Len(imgs) |-> h[imgs[i]].width])
           r == resizeToWidth(h, imgs, width, <<>>)
           height == SumSeq([i \in 1..Len(imgs) |->
                               r.heap[r.imagesNew[i]].height + spacing]) - spacing
           h1 == newMemoryImage(r.heap, width, height)
           finalImg == Len(h1)
           h2 == clear(h1, finalImg, bgColorOf(bgColor))
           h3 == drawColumn(h2, r.imagesNew, finalImg, 0, spacing)
       IN Ret(h3, Success(<<imageSave(h3, finalImg)>>))

(***************************************************************************)
(* The command handler: the images of a message are fetched and decoded,   *)
(* the operation of the command runs on them, and its blobs are the reply. *)
(* A user may send a reply's image back as the input of the next command.  *)
(***************************************************************************)
\* an option that was not given (a number, a string), and one that was
None == [has |-> FALSE, v |-> 0]
NoString == [has |-> FALSE, v |-> <<>>]
Some(x) == [has |-> TRUE, v |-> x]

NoCall ==
  [op |-> "", fps |-> <<>>, force |-> FALSE, duration |-> None,
   spacing |-> None, bgColor |-> NoString, size |-> <<>>,
   sources |-> <<>>, color |-> <<>>]

\* the generator chunks(arr, n) before it is created, and the call of zipBlobs
NoSending ==
  [n |-> 0, i |-> 0, slices |-> <<>>, more |-> 0, type |-> "", zip |-> ""]

\* the handler has answered nothing yet
NoReply == [kind |-> "none", path |-> <<>>, params |-> <<>>, messages |-> <<>>]

\* the frames of every input image as they are before the operation runs
Snapshot(h, imgs) == [i \in 1..Len(imgs) |-> FrameList(h, imgs[i])]

\* the rate specs a user may give to gif-change-fps
RateSpecs ==
  { <<"2", "x">>, <<"0", ".", "5", "x">>, <<"1", "X">>, <<"0", "x">>,
    <<"3", "U+500D", "U+901F">>,
    <<"5", "0", "%">>, <<"3", "0", "0", "%">>, <<"0", "%">>,
    <<"2", "5", "f", "p", "s">>, <<"6", "0", "f", "p", "s">>,
    <<"5", "0", "F", "P", "S">>, <<"0", "f", "p", "s">>,
    <<"1", "2", ".", "5", "f", "p", "s">>,
    <<"4", "0", "m", "s">>, <<"1", "5", "m", "s">>, <<"2", "s">>,
    <<"0", ".", "0", "3", "s">>,
    <<"b", "o", "g", "u", "s">>, <<"1", ".", "x">>, <<"4", "0">>,
    <<"1", "2", "3", "4", "5", "6", "7", "x">> }

\* the width and height of the animated inputs of the single-image commands
GifSize == [w |-> 64, h |-> 48]
GifWidth == GifSize.w
GifHeight == GifSize.h

Init ==
  /\ pc = "idle"
  /\ heap = <<>>
  /\ images = <<>>
  /\ input = <<>>
  /\ call = NoCall
  /\ outcome = NoOutcome
  /\ trail = <<>>
  /\ tasks = <<>>
  /\ sending = NoSending
  /\ tmpFiles = {}
  /\ reply = NoReply

\* fetchSources for a message with one image of n frames
FetchOne ==
  /\ pc = "idle"
  /\ \E n \in 1..MaxFrames :
       \E durs \in [1..n -> Durations] :
         \E type \in {"image/gif", "image/webp"}, loops \in LoopCounts :
           LET blob == [type |-> type, width |-> GifWidth, height |-> GifHeight,
                        frames |-> [i \in 1..n |->
                                      [px |-> Pixels(i, GifWidth, GifHeight),
                                       dur |-> durs[i],
                                       w |-> GifWidth, h |-> GifHeight]],
                        loopCount |-> loops]
               h == readImage(<<>>, blob)
           IN /\ heap' = h
              /\ images' = <<1>>
              /\ input' = Snapshot(h, <<1>>)
  /\ pc' = "fetched"
  /\ UNCHANGED <<call, outcome, trail, delivery>>

Finish(r, c) ==
  /\ heap' = r.heap
  /\ outcome' = r.outcome
  /\ call' = c
  /\ pc' = "done"
  /\ UNCHANGED <<images, input, trail, delivery>>

GifReverse ==
  /\ pc = "fetched" /\ Len(images) = 1
  /\ Finish(gifReverse(heap, images[1]), [NoCall EXCEPT !.op = "gifReverse"])

GifObverseReverse ==
  /\ pc = "fetched" /\ Len(images) = 1
  /\ Finish(gifObverseReverse(heap, images[1]),
            [NoCall EXCEPT !.op = "gifObverseReverse"])

GifSplit ==
  /\ pc = "fetched" /\ Len(images) = 1
  /\ Finish(gifSplit(heap, images[1]), [NoCall EXCEPT !.op = "gifSplit"])

GifChangeFps ==
  /\ pc = "fetched" /\ Len(images) = 1
  /\ \E fps \in RateSpecs, force \in BOOLEAN :
       Finish(gifChangeFps(heap, images[1], fps, force),
              [NoCall EXCEPT !.op = "gifChangeFps", !.fps = fps, !.force = force])

\* the blob of a reply can be sent back when an encoder can hold its delays
Resendable(blob) == \A i \in 1..Len(blob.frames) : IsFinite(blob.frames[i].dur)

ResubmitOps == {"gifReverse", "gifObverseReverse"}

\* the user sends the image of the reply as the input of a further command
Resubmit ==
  /\ pc = "done"
  /\ outcome.ok
  /\ call.op \in ResubmitOps
  /\ Len(trail) < MaxResubmit
  /\ Len(outcome.blobs) = 1
  /\ Resendable(outcome.blobs[1])
  /\ LET h == readImage(<<>>, outcome.blobs[1])
     IN /\ heap' = h
        /\ images' = <<1>>
        /\ input' = Snapshot(h, <<1>>)
  /\ trail' = Append(trail, [op |-> call.op, input |-> input,
                             image |-> FrameList(heap, images[1]),
                             loopCount |-> heap[images[1]].loopCount])
  /\ pc' = "fetched"
  /\ UNCHANGED <<call, outcome, delivery>>

Next ==
  \/ FetchOne
  \/ GifReverse
  \/ GifObverseReverse
  \/ GifSplit
  \/ GifChangeFps
  \/ Resubmit

Spec == Init /\ [][Next]_vars

(***************************************************************************)
(* The command color-mask on one image, still or animated.                 *)
(***************************************************************************)
\* the colours a user may give to color-mask
ColorSpecs ==
  { <<"#", "f", "f", "0", "0", "0", "0">>,
    <<"#", "0", "f", "0", "8">>,
    <<"r", "g", "b", "(", "1", "0", ",", "2", "0", ",", "3", "0", ")">>,
    <<"r", "g", "b", "a", "(", "0", ",", "0", ",", "0", ",", "0", ")">>,
    <<"r", "g", "b", "a", "(", "0", ",", "0", ",", "0", ",", "0", ".", "5", ")">>,
    <<"r", "g", "b", "a", "(", "0", ",", "0", ",", "0", ",", "1", ")">>,
    <<"2", "5", "5", " ", "0", " ", "0", " ", "1", "2", "8">>,
    <<"2", "5", "5", " ", "0", " ", "0", " ", "2", "5", "5">>,
    <<"0", " ", "0", " ", "0", " ", "1", ".", "5">>,
    <<"r", "g", "b", "(", "0", ",", "0", ",", "3", "0", "0", ")">>,
    <<"0", ",", "0", ",", "0", ",", "3", "0", "0">>,
    <<"b", "o", "g", "u", "s">> }

ColorMask ==
  /\ pc = "fetched" /\ Len(images) = 1
  /\ \E color \in ColorSpecs :
       Finish(colorMask(heap, images[1], color),
              [NoCall EXCEPT !.op = "colorMask", !.color = color])

NextMask ==
  \/ FetchOne
  \/ ColorMask

SpecMask == Init /\ [][NextMask]_vars

(***************************************************************************)
(* The multi-image commands: every image of the message is fetched, and    *)
(* the operation runs once on the array of them.                           *)
(***************************************************************************)
\* the frames (of 70 ms) of an image of shape sh whose first picture is number first
ShapeFrames(sh, first) ==
  [i \in 1..sh.n |->
     [px |-> Pixels(first + i - 1, sh.w, sh.h), dur |-> 70,
      w |-> sh.w, h |-> sh.h]]

ShapeBlob(sh, first) ==
  [type |-> IF sh.n > 1 THEN "image/gif" ELSE "image/png",
   width |-> sh.w, height |-> sh.h, frames |-> ShapeFrames(sh, first),
   loopCount |-> 0]

\* Promise.all(sources.map((v) => readImage(http, v))): the heap and the images
RECURSIVE readImages(_, _, _, _)
readImages(h, shapes, first, acc) ==
  IF shapes = <<>> THEN [heap |-> h, images |-> acc]
  ELSE readImages(readImage(h, ShapeBlob(Head(shapes), first)), Tail(shapes),
                  first + Head(shapes).n, Append(acc, Len(h) + 1))

FetchMany ==
  /\ pc = "idle"
  /\ \E k \in 1..MaxImages :
       \E shapes \in [1..k -> Shapes] :
         LET r == readImages(<<>>, shapes, 1, <<>>)
         IN /\ heap' = r.heap
            /\ images' = r.images
            /\ input' = Snapshot(r.heap, r.images)
  /\ pc' = "fetched"
  /\ UNCHANGED <<call, outcome, trail, delivery>>

\* the values a user may give to the option duration of gif-join
DurationOptions == {None, Some(0 - 1), Some(0), Some(10), Some(20), Some(50)}

\* the values a user may give to the option spacing of the joins
SpacingOptions == {None, Some(0), Some(5)}

\* the values a user may give to the option bgColor of the joins
BgColorOptions ==
  {NoString, Some(<<"#", "f", "f", "f">>), Some(<<"2", "5", "5", ",", "0", ",", "0">>),
   Some(<<"b", "o", "g", "u", "s">>),
   Some(<<"#", "f", "f", "0", "0", "0", "0">>),
   Some(<<"r", "g", "b", "a", "(", "0", ",", "0", ",", "0", ",", "0", ".", "5", ")">>),
   Some(<<"r", "g", "b", "(", "2", "5", "5", ",", " ", "2", "5", "5", ",", " ",
          "2", "5", "5", ")">>)}

GifJoin ==
  /\ pc = "fetched"
  /\ \E duration \in DurationOptions, force \in BOOLEAN :
       Finish(gifJoin(heap, images, duration, force),
              [NoCall EXCEPT !.op = "gifJoin", !.duration = duration,
                             !.force = force])

HorizontalJoin ==
  /\ pc = "fetched"
  /\ \E spacing \in SpacingOptions, bgColor \in BgColorOptions, force \in BOOLEAN :
       Finish(horizontalJoin(heap, images, spacing, bgColor, force),
              [NoCall EXCEPT !.op = "horizontalJoin", !.spacing = spacing,
                             !.bgColor = bgColor, !.force = force])

VerticalJoin ==
  /\ pc = "fetched"
  /\ \E spacing \in SpacingOptions, bgColor \in BgColorOptions, force \in BOOLEAN :
       Finish(verticalJoin(heap, images, spacing, bgColor, force),
              [NoCall EXCEPT !.op = "verticalJoin", !.spacing = spacing,
                             !.bgColor = bgColor, !.force = force])

NextJoin ==
  \/ FetchMany
  \/ GifJoin
  \/ HorizontalJoin
  \/ VerticalJoin

SpecJoin == Init /\ [][NextJoin]_vars

(***************************************************************************)
(* resize, crop, fourGrid, nineGrid.  A size is given as "WxH", "N%" or     *)
(* "W:H"; the two CJK separators of the ratio pattern are written by their *)
(* code points.  Quotients are exact where JS computes them in floating    *)
(* point.                                                                  *)
(***************************************************************************)
Min(a, b) == IF a <= b THEN a ELSE b

\* Math.ceil(a / b)
CeilDiv(a, b) == (a + b - 1) \div b

SizeSeparators == {"*", "x", "X", ",", " "}
RatioSeparators == {":", "U+FF1A", "U+6BD4"}

\* the outcome of a [RegExp, callback] pair: no match, a thrown error, or a size
NoSize == [matched |-> FALSE, ok |-> FALSE, width |-> 0, height |-> 0]
InvalidSize == [matched |-> TRUE, ok |-> FALSE, width |-> 0, height |-> 0]
Size(w, hh) == [matched |-> TRUE, ok |-> TRUE, width |-> w, height |-> hh]

\* the callback deriving an omitted side from the other side and the ratio
getSizeMatchRegKeepRatio(str, width, height) ==
  LET k == DigitRunLen(str)
      w == SubSeq(str, 1, k)
      hs == Rest(str, k + 2)
  IN IF k <= 4 /\ Len(str) > k /\ str[k + 1] \in SizeSeparators
          /\ Len(hs) <= 4 /\ AllDigits(hs)
       THEN LET hG == IF hs # <<>> THEN ParseInt(hs) ELSE height
                wN == IF w # <<>> THEN ParseInt(w) ELSE RoundDiv(hG * width, height)
                hN == IF hs # <<>> THEN ParseInt(hs)
                      ELSE IF w # <<>> THEN RoundDiv(wN * height, width) ELSE height
            IN IF wN <= 0 \/ hN <= 0 THEN InvalidSize ELSE Size(wN, hN)
     ELSE NoSize

\* ^(?<w>(\d{1,4})?)[*xX, ](?<h>(\d{1,4})?)$ and its callback
getSizeMatchReg(str, width, height) ==
  LET k == DigitRunLen(str)
      w == SubSeq(str, 1, k)
      hs == Rest(str, k + 2)
  IN IF k <= 4 /\ Len(str) > k /\ str[k + 1] \in SizeSeparators
          /\ Len(hs) <= 4 /\ AllDigits(hs)
       THEN LET wN == IF w # <<>> THEN ParseInt(w) ELSE width
                hN == IF hs # <<>> THEN ParseInt(hs) ELSE height
            IN IF wN <= 0 \/ hN <= 0 THEN InvalidSize ELSE Size(wN, hN)
     ELSE NoSize

\* ^(?<p>\d{1,3})%$ and its callback
getPercentMatchReg(str, width, height) ==
  LET k == DigitRunLen(str)
  IN IF k \in 1..3 /\ Rest(str, k + 1) = <<"%">>
       THEN LET p == ParseInt(SubSeq(str, 1, k))
            IN IF p <= 0 THEN InvalidSize
               ELSE Size((width * p) \div 100, (height * p) \div 100)
     ELSE NoSize

\* ^(?<pw>\d{1,2})[:...](?<ph>\d{1,2})$ and its callback:
\* size = Math.min(width / pw, width / ph) = width / max(pw, ph)
getRatioMatchReg(str, width, height) ==
  LET k == DigitRunLen(str)
      phs == Rest(str, k + 2)
  IN IF k \in 1..2 /\ Len(str) > k /\ str[k + 1] \in RatioSeparators
          /\ Len(phs) \in 1..2 /\ AllDigits(phs)
       THEN LET pw == ParseInt(SubSeq(str, 1, k))
                ph == ParseInt(phs)
            IN IF pw <= 0 \/ ph <= 0 THEN InvalidSize
               ELSE Size((pw * width) \div Max(pw, ph), (ph * width) \div Max(pw, ph))
     ELSE NoSize

\* matchRegExps over two pairs: the first pattern that matches decides
matchRegExps(first, second) ==
  IF first.matched THEN first ELSE IF second.matched THEN second ELSE InvalidSize

invalidArgFormat == OperationError("invalid-arg-format", <<>>)

\* the layers of a picture seen through a window whose corner is at (x, y)
croppedPixels(px, x, y) ==
  [i \in 1..Len(px) |-> [px[i] EXCEPT !.x = @ - x, !.y = @ - y]]

\* the crop window kept within the image, as Transform.copyCrop keeps it
cropWindow(image, left, top, width, height) ==
  LET x == Max(0, Min(left, image.width - 1))
      y == Max(0, Min(top, image.height - 1))
  IN [x |-> x, y |-> y,
      width |-> IF x + width > image.width THEN image.width - x ELSE width,
      height |-> IF y + height > image.height THEN image.height - y ELSE height]

\* Transform.copyCrop({ image, rect }): a cropped copy of every frame
RECURSIVE copyCropFrames(_, _, _, _)
copyCropFrames(h, root, fs, win) ==
  IF fs = <<>> THEN h
  ELSE LET id == Len(h) + 1
           f == h[Head(fs)]
           h1 == Append(h, NewObject(id, croppedPixels(f.px, win.x, win.y),
                                     win.width, win.height, f.frameDuration))
           h2 == IF root = 0 THEN h1 ELSE FramesPush(h1, root, <<id>>)
       IN copyCropFrames(h2, IF root = 0 THEN id ELSE root, Tail(fs), win)

\* a crop that takes the rectangle as given, beyond the image where it is
copyCropUnclipped(h, image, left, top, width, height) ==
  copyCropFrames(h, 0, h[image].frames,
                 [x |-> left, y |-> top, width |-> width, height |-> height])

copyCrop(h, image, left, top, width, height) ==
  copyCropFrames(h, 0, h[image].frames,
                 cropWindow(h[image], left, top, width, height))

\* Transform.copyResizeCropSquare({ image, size }) with size the smaller side:
\* nothing is scaled, the centred square is kept
copyResizeCropSquare(h, image, size) ==
  copyCrop(h, image, (h[image].width - size) \div 2,
           (h[image].height - size) \div 2, size, size)

\* the boxes [x1, y1, x2, y2] of fourGrid and nineGrid for a square of side w
fourGridBoxes(w) ==
  LET a == CeilDiv(w, 2)
  IN << <<0, 0, a, a>>, <<a, 0, a * 2, a>>,
        <<0, a, a, a * 2>>, <<a, a, a * 2, a * 2>> >>

\* boxes whose cells have the side floor(w/3)
nineGridBoxesFloor(w) ==
  LET a == w \div 3
  IN << <<0, 0, a, a>>, <<a, 0, a * 2, a>>, <<a * 2, 0, w, a>>,
        <<0, a, a, a * 2>>, <<a, a, a * 2, a * 2>>, <<a * 2, a, w, a * 2>>,
        <<0, a * 2, a, w>>, <<a, a * 2, a * 2, w>>, <<a * 2, a * 2, w, w>> >>

nineGridBoxes(w) ==
  LET a == CeilDiv(w, 3)
  IN << <<0, 0, a, a>>, <<a, 0, a * 2, a>>, <<a * 2, 0, w, a>>,
        <<0, a, a, a * 2>>, <<a, a, a * 2, a * 2>>, <<a * 2, a, w, a * 2>>,
        <<0, a * 2, a, w>>, <<a, a * 2, a * 2, w>>, <<a * 2, a * 2, w, w>> >>

\* boxes.map(([x, y, w, h]) => copyCrop({ image, rect: new Rectangle(x, y, w, h) })):
\* a Rectangle is made of its two corners
RECURSIVE cropBoxes(_, _, _, _)
cropBoxes(h, image, boxes, acc) ==
  IF boxes = <<>> THEN [heap |-> h, imgs |-> acc]
  ELSE LET b == Head(boxes)
           h1 == copyCrop(h, image, b[1], b[2], b[3] - b[1], b[4] - b[2])
       IN cropBoxes(h1, image, Tail(boxes), Append(acc, Len(h) + 1))

\* cropToGrids with the boxes computed for the side of the square
cropToGrids(h, image, grid) ==
  LET size == Min(h[image].width, h[image].height)
      h1 == copyResizeCropSquare(h, image, size)
      square == Len(h) + 1
      boxes == IF grid = 2 THEN fourGridBoxes(size) ELSE nineGridBoxes(size)
      r == cropBoxes(h1, square, boxes, <<>>)
  IN Ret(r.heap, Success([i \in 1..Len(r.imgs) |-> imageSave(r.heap, r.imgs[i])]))

fourGrid(h, image) == cropToGrids(h, image, 2)

nineGrid(h, image) == cropToGrids(h, image, 3)

resize(h, image, size) ==
  LET iw == h[image].width
      ih == h[image].height
      m == matchRegExps(getSizeMatchReg(size, iw, ih), getPercentMatchReg(size, iw, ih))
  IN IF ~m.ok THEN Ret(h, invalidArgFormat)
     ELSE LET h1 == copyResize(h, image, m.width, m.height)
          IN Ret(h1, Success(<<imageSave(h1, Len(h) + 1)>>))

\* a rectangle that starts at the top left corner of the image
cropRectangleTopLeft(width, height, iw, ih) ==
  [x2 |-> 0, y2 |-> 0, width |-> width, height |-> height]

\* the x, y, width and height crop gives to Rectangle.fromXYWH; x and y may be
\* halves, so twice their value is kept
cropRectangle(width, height, iw, ih) ==
  [x2 |-> IF width > iw THEN 0 ELSE iw - width,
   y2 |-> IF height > ih THEN 0 ELSE ih - height,
   width |-> width, height |-> height]

crop(h, image, size) ==
  LET iw == h[image].width
      ih == h[image].height
      m == matchRegExps(getSizeMatchReg(size, iw, ih), getRatioMatchReg(size, iw, ih))
  IN IF ~m.ok THEN Ret(h, invalidArgFormat)
     ELSE LET rect == cropRectangle(m.width, m.height, iw, ih)
              h1 == copyCrop(h, image, rect.x2 \div 2, rect.y2 \div 2,
                             rect.width, rect.height)
          IN Ret(h1, Success(<<imageSave(h1, Len(h) + 1)>>))

(***************************************************************************)
(* The commands on one still image: the image is fetched, and resize, crop *)
(* or a grid command runs on it.                                           *)
(***************************************************************************)
\* the (width, height) of the still images given to these commands
StillSizes ==
  { <<200, 100>>, <<50, 50>>, <<100, 100>>, <<50, 200>>, <<5, 8>>, <<8, 5>>,
    <<7, 3>>, <<2, 2>>, <<1, 1>>, <<4, 4>>, <<6, 7>> }

\* the sizes a user may give to resize and crop
SizeSpecs ==
  { <<"1", "0", "0", "x", "1", "0", "0">>, <<"x", "2", "0", "0">>,
    <<"3", "0", "0", "x">>, <<"x">>, <<"0", "x", "5">>, <<"4", "0", " ", "3", "0">>,
    <<"1", "2", "3", "4", "5", "x", "1">>,
    <<"5", "0", "%">>, <<"1", "%">>, <<"2", "0", "0", "%">>, <<"0", "%">>,
    <<"2", ":", "1">>, <<"1", ":", "9", "9">>, <<"1", ":", "1">>, <<"0", ":", "1">>,
    <<"1", "6", "U+6BD4", "9">>, <<"b", "o", "g", "u", "s">> }

FetchStill ==
  /\ pc = "idle"
  /\ \E size \in StillSizes :
       LET blob == [type |-> "image/png", width |-> size[1], height |-> size[2],
                    frames |-> <<[px |-> Pixels(1, size[1], size[2]), dur |-> 0,
                                  w |-> size[1], h |-> size[2]]>>,
                    loopCount |-> 0]
           h == readImage(<<>>, blob)
       IN /\ heap' = h
          /\ images' = <<1>>
          /\ input' = Snapshot(h, <<1>>)
  /\ pc' = "fetched"
  /\ UNCHANGED <<call, outcome, trail, delivery>>

FourGrid ==
  /\ pc = "fetched" /\ Len(images) = 1
  /\ Finish(fourGrid(heap, images[1]), [NoCall EXCEPT !.op = "fourGrid"])

NineGrid ==
  /\ pc = "fetched" /\ Len(images) = 1
  /\ Finish(nineGrid(heap, images[1]), [NoCall EXCEPT !.op = "nineGrid"])

Resize ==
  /\ pc = "fetched" /\ Len(images) = 1
  /\ \E size \in SizeSpecs :
       Finish(resize(heap, images[1], size),
              [NoCall EXCEPT !.op = "resize", !.size = size])

Crop ==
  /\ pc = "fetched" /\ Len(images) = 1
  /\ \E size \in SizeSpecs :
       Finish(crop(heap, images[1], size),
              [NoCall EXCEPT !.op = "crop", !.size = size])

NextStill ==
  \/ FetchStill
  \/ FourGrid
  \/ NineGrid
  \/ Resize
  \/ Crop

SpecStill == Init /\ [][NextStill]_vars

(***************************************************************************)
(* All the commands together: any command may be given any message.        *)
(***************************************************************************)
NextAll ==
  \/ FetchOne
  \/ FetchMany
  \/ FetchStill
  \/ GifReverse
  \/ GifObverseReverse
  \/ GifSplit
  \/ GifChangeFps
  \/ GifJoin
  \/ HorizontalJoin
  \/ VerticalJoin
  \/ FourGrid
  \/ NineGrid
  \/ Resize
  \/ Crop
  \/ Resubmit

SpecAll == Init /\ [][NextAll]_vars

(***************************************************************************)
(* The command handler of src/index.tsx: the images of the message are     *)
(* fetched, the command runs as one task per image (one task on all the    *)
(* images for a multi-image command), the blobs are turned into the reply, *)
(* and errorHandle renders the OperationError of any stage.                *)
(***************************************************************************)
name == "image-tools"

\* the i18nPath of new OperationError('.' + key)
i18nPath(key) == <<name, "errors", key>>

\* the errors that are no OperationError
OtherErrorNames == {"TypeError", "Error"}

OtherError(n) == [ok |-> FALSE, key |-> n, params |-> <<>>, blobs |-> NoBlobs]

\* e instanceof ou.OperationError
instanceofOperationError(e) == e.key \notin OtherErrorNames

Reply(kind, messages) ==
  [kind |-> kind, path |-> <<>>, params |-> <<>>, messages |-> messages]

\* a mistaken catch that renders whatever was thrown
errorHandleRenderAll(e) ==
  [kind |-> "i18n", path |-> i18nPath(e.key), params |-> e.params,
   messages |-> <<>>]

\* the catch of errorHandle: the message rendered, or the error thrown again
errorHandle(e) ==
  IF instanceofOperationError(e)
    THEN [kind |-> "i18n", path |-> i18nPath(e.key), params |-> e.params,
          messages |-> <<>>]
  ELSE [kind |-> "thrown", path |-> <<e.key>>, params |-> <<>>,
        messages |-> <<>>]

\* what fetching one source may do: succeed, fail with an HTTP error, or
\* deliver something that cannot be decoded
SourceFates == {"ok", "http", "bad"}

\* the images the handler is given
HandlerShapes ==
  { [n |-> 1, w |-> 100, h |-> 50], [n |-> 2, w |-> 30, h |-> 70],
    [n |-> 3, w |-> 64, h |-> 48] }

\* the catch of fetchSources for the rejection that came first
fetchFailure(fate) ==
  OperationError(IF fate = "http" THEN "fetch-image-failed" ELSE "invalid-image",
                 <<>>)

\* handleAcceptImageCmd up to the end of fetchSources
FetchSources ==
  /\ pc = "idle"
  /\ \E k \in 0..MaxImages :
       \E fates \in [1..k -> SourceFates] :
         LET failed == {i \in 1..k : fates[i] # "ok"}
         IN /\ call' = [NoCall EXCEPT !.sources = fates]
            /\ IF k = 0
                 THEN /\ outcome' = OperationError("missing-image", <<>>)
                      /\ pc' = "done"
                      /\ UNCHANGED <<heap, images, input>>
               ELSE IF failed # {}
                 THEN /\ \E first \in failed : outcome' = fetchFailure(fates[first])
                      /\ pc' = "done"
                      /\ UNCHANGED <<heap, images, input>>
               ELSE \E shapes \in [1..k -> HandlerShapes] :
                      LET r == readImages(<<>>, shapes, 1, <<>>)
                      IN /\ heap' = r.heap
                         /\ images' = r.images
                         /\ input' = Snapshot(r.heap, r.images)
                         /\ pc' = "fetched"
                         /\ outcome' = outcome
  /\ UNCHANGED <<trail, delivery>>

\* the commands the handler is given, and those of them with multiImages
HandlerCommands == {"gifSplit", "fourGrid", "gifJoin"}

multiImages(cmd) == cmd = "gifJoin"

\* imgCmd.func(v, ctx.skia, { args, options }) for the i-th task
runCommand(h, cmd, imgs, i) ==
  IF cmd = "gifSplit" THEN gifSplit(h, imgs[i])
  ELSE IF cmd = "fourGrid" THEN fourGrid(h, imgs[i])
  ELSE gifJoin(h, imgs, None, FALSE)

PendingTask == [state |-> "pending", value |-> NoBlobs, seq |-> 0]

Settled(ts) == Cardinality({j \in 1..Len(ts) : ts[j].state # "pending"})

\* the values of the tasks in the order the tasks settled
RECURSIVE BySeq(_, _)
BySeq(ts, s) ==
  IF s > Len(ts) THEN <<>>
  ELSE <<(CHOOSE t \in {ts[m] : m \in 1..Len(ts)} : t.seq = s).value>>
       \o BySeq(ts, s + 1)

promiseAllByCompletion(ts) == BySeq(ts, 1)

\* await Promise.all(tasks): the values of the tasks in the order of the tasks
promiseAll(ts) == [j \in 1..Len(ts) |-> ts[j].value]

\* (await Promise.all(tasks)).flatMap((v) => v)
promiseAllFlat(ts) == Flat(promiseAll(ts))

\* the tasks of Promise.all are created
StartTasks ==
  /\ pc = "fetched"
  /\ call.sources # <<>>
  /\ \E cmd \in HandlerCommands :
       /\ call' = [call EXCEPT !.op = cmd]
       /\ tasks' = [i \in 1..(IF multiImages(cmd) THEN 1 ELSE Len(images)) |->
                      PendingTask]
  /\ pc' = "processing"
  /\ UNCHANGED <<heap, images, input, outcome, trail, sending, tmpFiles, reply>>

\* one task settles, in whatever order the tasks do: the first rejection
\* rejects Promise.all, the last fulfilment fulfils it
CompleteTask(i) ==
  /\ pc = "processing"
  /\ tasks[i].state = "pending"
  /\ \E crash \in BOOLEAN :
       LET r == IF crash THEN Ret(heap, OtherError("TypeError"))
                ELSE runCommand(heap, call.op, images, i)
           settled == [tasks EXCEPT ![i] =
                         [state |-> IF r.outcome.ok THEN "done" ELSE "failed",
                          value |-> r.outcome.blobs,
                          seq |-> Settled(tasks) + 1]]
       IN /\ heap' = r.heap
          /\ tasks' = settled
          /\ IF ~r.outcome.ok
               THEN outcome' = r.outcome /\ pc' = "done"
             ELSE IF \A j \in 1..Len(settled) : settled[j].state = "done"
               THEN outcome' = Success(promiseAllFlat(settled)) /\ pc' = "done"
             ELSE UNCHANGED <<outcome, pc>>
  /\ UNCHANGED <<images, input, call, trail, sending, tmpFiles, reply>>

\* errorHandle catches what the handler threw
ErrorHandle ==
  /\ pc = "done" /\ ~outcome.ok
  /\ reply' = errorHandle(outcome)
  /\ pc' = IF instanceofOperationError(outcome) THEN "replied" ELSE "threw"
  /\ UNCHANGED <<heap, images, input, call, outcome, trail, tasks, sending,
                 tmpFiles>>

\* the values of the setting overflowThreshold (a number of any sign)
Thresholds == {0 - 1, 0, 2, 9}

SendTypes == {"multi", "forward", "file"}

\* blobs.map(toImageElem) with every element in a message of its own
OneEach(blobs) == [i \in 1..Len(blobs) |-> <<blobs[i]>>]

\* blobsToSendable up to the reply, to the creation of the generator of
\* splitToMessages, or to the call of zipBlobs
BlobsToSendable ==
  /\ pc = "done" /\ outcome.ok /\ tasks # <<>>
  /\ LET blobs == outcome.blobs
     IN \E overflowThreshold \in Thresholds :
          IF Len(blobs) <= overflowThreshold
            THEN \E sendOneByOne \in BOOLEAN :
                   /\ reply' = IF sendOneByOne THEN Reply("sent", OneEach(blobs))
                               ELSE Reply("elements", <<blobs>>)
                   /\ sending' = [NoSending EXCEPT !.n = overflowThreshold]
                   /\ pc' = "replied"
          ELSE \E sendType \in SendTypes, oneByOneInForward \in BOOLEAN :
                 /\ oneByOneInForward => sendType = "forward"
                 /\ sending' = [NoSending EXCEPT !.n = overflowThreshold,
                                                 !.type = sendType]
                 /\ IF oneByOneInForward
                      THEN /\ reply' = Reply("forward", OneEach(blobs))
                           /\ pc' = "replied"
                    ELSE /\ reply' = reply
                         /\ pc' = IF sendType = "file" THEN "zipping"
                                  ELSE "chunking"
  /\ UNCHANGED <<heap, images, input, call, outcome, trail, tasks, tmpFiles>>

\* arr.slice(start, end)
Slice(arr, start, end) ==
  LET rel(k) == IF k < 0 THEN Max(Len(arr) + k, 0) ELSE Min(k, Len(arr))
  IN SubSeq(arr, rel(start) + 1, rel(end))

\* one turn of the loop of chunks(arr, n); a generator that has yielded more
\* slices than arr has elements never ends: of its further turns the model
\* keeps the parity only
chunksYield(g, arr) ==
  IF Len(g.slices) > Len(arr) THEN [g EXCEPT !.more = 1 - @]
  ELSE [g EXCEPT !.slices = Append(@, Slice(arr, g.i, g.i + g.n)),
                 !.i = @ + g.n]

\* [...chunks(blobs, overflowThreshold)]: one turn of the loop, or its end and
\* the messages of the slices
ChunksNext ==
  /\ pc = "chunking"
  /\ IF sending.i < Len(outcome.blobs)
       THEN /\ sending' = chunksYield(sending, outcome.blobs)
            /\ UNCHANGED <<pc, reply>>
     ELSE /\ reply' = Reply(IF sending.type = "multi" THEN "sent" ELSE "forward",
                            sending.slices)
          /\ pc' = "replied"
          /\ sending' = sending
  /\ UNCHANGED <<heap, images, input, call, outcome, trail, tasks, tmpFiles>>

\* the temporary directories of one call of zipBlobs
tmpImagesDir == "temp/image-tools/images/folderId"
tmpZipDir == "temp/image-tools/compressed"

\* what may fail in zipBlobs
ZipFaults == {"none", "mkdir-images", "write", "mkdir-compressed", "7z"}

\* zipBlobs: the directories that exist when it finishes, and whether it threw
zipBlobs(dirs, fault) ==
  LET made == dirs \cup {tmpImagesDir}
  IN IF fault = "mkdir-images" THEN [dirs |-> dirs, threw |-> TRUE]
     ELSE IF fault = "write" THEN [dirs |-> made, threw |-> TRUE]
     ELSE IF fault = "mkdir-compressed"
       THEN [dirs |-> made \ {tmpImagesDir}, threw |-> TRUE]
     ELSE [dirs |-> (made \cup {tmpZipDir}) \ {tmpImagesDir},
           threw |-> fault = "7z"]

\* case 'file' of blobsToSendable: zipBlobs, then the file element
ZipBlobs ==
  /\ pc = "zipping"
  /\ \E fault \in ZipFaults, useBase64SendFile \in BOOLEAN, readFails \in BOOLEAN :
       LET z == zipBlobs(tmpFiles, fault)
       IN /\ readFails => (useBase64SendFile /\ ~z.threw)
          /\ useBase64SendFile => ~z.threw
          /\ tmpFiles' = z.dirs
          /\ sending' = [sending EXCEPT !.zip = fault]
          /\ IF z.threw
               THEN /\ outcome' = OperationError("zip-failed", <<>>)
                    /\ pc' = "done"
                    /\ reply' = reply
             ELSE IF readFails
               THEN /\ outcome' = OtherError("Error")
                    /\ pc' = "done"
                    /\ reply' = reply
             ELSE /\ reply' = Reply("file", <<outcome.blobs>>)
                  /\ pc' = "replied"
                  /\ outcome' = outcome
  /\ UNCHANGED <<heap, images, input, call, trail, tasks>>

\* a canvas with the picture of a frame drawn on it by the callback `process`
\* of gifHelper, here the callback that draws what it is given
processFrame(h, frameRaw) ==
  [px |-> h[frameRaw].px, w |-> h[frameRaw].width, h |-> h[frameRaw].height]

\* canvasSavePng: new Blob([await canvas.toBuffer('png')])
canvasSavePng(canvas) ==
  [type |-> "image/png", width |-> canvas.w, height |-> canvas.h,
   frames |-> <<[px |-> canvas.px, dur |-> 0, w |-> canvas.w, h |-> canvas.h]>>,
   loopCount |-> DefaultLoopCount]

\* canvasList.map(async ([c]) => decodePng(...)): one new object per canvas
RECURSIVE decodeCanvases(_, _)
decodeCanvases(h, canvasList) ==
  IF canvasList = <<>> THEN h
  ELSE decodeCanvases(
         Append(h, NewObject(Len(h) + 1, Head(canvasList)[1].px,
                             Head(canvasList)[1].w, Head(canvasList)[1].h, 0)),
         Tail(canvasList))

\* the loop of canvasSaveGif from i on (i counted from 0 as in the code)
RECURSIVE addRestFrames(_, _, _, _)
addRestFrames(h, frame0, canvasList, i) ==
  IF i >= Len(canvasList) THEN h
  ELSE addRestFrames(
         addFrame([h EXCEPT ![frame0 + i].frameDuration = canvasList[i + 1][2]],
                  frame0, frame0 + i),
         frame0, canvasList, i + 1)

canvasSaveGif(h, canvasList) ==
  LET frame0 == Len(h) + 1
      h1 == addRestFrames(decodeCanvases(h, canvasList), frame0, canvasList, 1)
  IN Ret(h1, Success(<<imageSaveGif(h1, frame0)>>))

\* the end of gifHelper, once every frame has its canvas
gifHelperSave(h, frameCanvases) ==
  IF Len(frameCanvases) > 1 THEN canvasSaveGif(h, frameCanvases)
  ELSE Ret(h, Success(<<canvasSavePng(frameCanvases[1][1])>>))

\* gifHelper(sv, image, process) is called on the one image of the message: a
\* task per frame
GifHelper ==
  /\ pc = "fetched"
  /\ call.sources # <<>>
  /\ Len(images) = 1
  /\ call' = [call EXCEPT !.op = "gifHelper"]
  /\ tasks' = [j \in 1..Len(heap[images[1]].frames) |-> PendingTask]
  /\ pc' = "helping"
  /\ UNCHANGED <<heap, images, input, outcome, trail, sending, tmpFiles, reply>>

\* the task of one frame settles, in whatever order the tasks do
ProcessFrame(j) ==
  /\ pc = "helping"
  /\ tasks[j].state = "pending"
  /\ \E crash \in BOOLEAN :
       LET v == heap[images[1]].frames[j]
           settled == [tasks EXCEPT ![j] =
                         [state |-> IF crash THEN "failed" ELSE "done",
                          value |-> IF crash THEN NoBlobs
                                    ELSE <<processFrame(heap, v),
                                           heap[v].frameDuration>>,
                          seq |-> Settled(tasks) + 1]]
           r == gifHelperSave(heap, promiseAll(settled))
       IN /\ tasks' = settled
          /\ IF crash
               THEN outcome' = OtherError("TypeError") /\ pc' = "done" /\ heap' = heap
             ELSE IF \A m \in 1..Len(settled) : settled[m].state = "done"
               THEN outcome' = r.outcome /\ pc' = "done" /\ heap' = r.heap
             ELSE UNCHANGED <<outcome, pc, heap>>
  /\ UNCHANGED <<images, input, call, trail, sending, tmpFiles, reply>>

NextHandler ==
  \/ FetchSources
  \/ StartTasks
  \/ \E i \in 1..Len(tasks) : CompleteTask(i)
  \/ GifHelper
  \/ \E j \in 1..Len(tasks) : ProcessFrame(j)
  \/ ErrorHandle
  \/ BlobsToSendable
  \/ ChunksNext
  \/ ZipBlobs

SpecHandler == Init /\ [][NextHandler]_vars

\* blobsToSendable is an async function on the event loop of the runtime: every
\* step of the delivery that can be taken is taken
SpecHandlerLive ==
  /\ SpecHandler
  /\ WF_vars(BlobsToSendable)
  /\ WF_vars(ChunksNext)
  /\ WF_vars(ZipBlobs)
  /\ WF_vars(ErrorHandle)

(***************************************************************************)
(* Properties of the GIF operations.                                       *)
(***************************************************************************)
Done(op) == pc = "done" /\ call.op = op

\* the frames the operation was given, and those of the blob it returned
In == input[1]
Out == outcome.blobs[1].frames

Animated == Len(In) >= 2

\* the input is a freshly decoded file: every frame has pixels of its own
Fresh == trail = <<>>

\* C1: gifReverse on frames [f0..fn], n >= 1, gives exactly [fn..f0]: the same
\* number of frames, fully reversed, each with its own pixels and duration.
C1_ReverseExact ==
  (Done("gifReverse") /\ Animated) =>
    /\ outcome.ok
    /\ Len(outcome.blobs) = 1
    /\ outcome.blobs[1].type = "image/gif"
    /\ Len(Out) = Len(In)
    /\ \A i \in 1..Len(In) : Out[i] = In[Len(In) + 1 - i]

C1_Witness ==
  /\ Done("gifReverse") /\ Fresh /\ outcome.ok
  /\ Len(In) = 3
  /\ In[1].dur = 10 /\ In[2].dur = 40 /\ In[3].dur = 100
  /\ Out[1].px = Pixels(3, GifWidth, GifHeight) /\ Out[1].dur = 100

\* C2: gifReverse applied to the output of gifReverse gives back the original
\* frame order and per-frame durations, for every image of at least 2 frames.
C2_ReverseInvolution ==
  (Done("gifReverse") /\ trail # <<>> /\ trail[Len(trail)].op = "gifReverse") =>
    /\ outcome.ok
    /\ Len(outcome.blobs) = 1
    /\ Out = trail[Len(trail)].input[1]

C2_Witness ==
  /\ Done("gifReverse") /\ outcome.ok
  /\ Len(trail) = 1 /\ trail[1].op = "gifReverse"
  /\ Len(trail[1].input[1]) = 3
  /\ trail[1].input[1][1].dur # trail[1].input[1][3].dur
  /\ Out = trail[1].input[1]

\* C3: gifObverseReverse on N >= 2 frames [f0..fn] gives [f0..fn, f(n-1)..f1]:
\* 2N-2 frames, the forward part unchanged, neither f0 nor fn a second time.
C3_ObverseReverse ==
  (Done("gifObverseReverse") /\ Animated) =>
    LET N == Len(In) IN
    /\ outcome.ok
    /\ Len(outcome.blobs) = 1
    /\ Len(Out) = 2 * N - 2
    /\ \A i \in 1..N : Out[i] = In[i]
    /\ \A j \in 1..(N - 2) : Out[N + j] = In[N - j]
    /\ Fresh => /\ Cardinality({i \in 1..Len(Out) : Out[i].px = In[1].px}) = 1
                /\ Cardinality({i \in 1..Len(Out) : Out[i].px = In[N].px}) = 1

C3_Witness ==
  /\ Done("gifObverseReverse") /\ Fresh /\ outcome.ok
  /\ Len(In) = 3
  /\ Len(Out) = 4
  /\ Out[4] = In[2]
  /\ In[1].dur # In[2].dur

(***************************************************************************)
(* Properties of gifChangeFps.                                             *)
(***************************************************************************)
FpsWarned == ~outcome.ok /\ outcome.key = "fps-exceed-range-warn"

\* the durations the rate spec of the call computes from those of the input
NewTimes == rateSpecTimes([i \in 1..Len(In) |-> In[i].dur], call.fps)

AllFinite(ts) == \A i \in 1..Len(ts) : IsFinite(ts[i])

\* the call got past ensureAnimation and the rate spec was accepted
Retimed == Done("gifChangeFps") /\ Animated /\ rateSpecMatches(call.fps)

\* p is the mean of ts to two decimals, in hundredths: |p/100 - mean| <= 1/200
IsMeanHundredths(p, ts) ==
  /\ 2 * (p * Len(ts) - 100 * SumSeq(ts)) <= Len(ts)
  /\ 2 * (100 * SumSeq(ts) - p * Len(ts)) <= Len(ts)

\* C4 as stated: without force the call fails with fps-exceed-range-warn iff the
\* MEAN of the new durations is below 20 ms; with force it never does.
C4_WarnIffMeanBelow20 ==
  (Retimed /\ AllFinite(NewTimes)) =>
    (FpsWarned <=> (~call.force /\ SumSeq(NewTimes) < 20 * Len(NewTimes)))

\* C4 amended: without force the call fails with fps-exceed-range-warn iff AT
\* LEAST ONE new duration is below 20 ms; the error carries the mean of the new
\* durations (to two decimals); with force it never raises the warning.
C4_WarnIffSomeBelow20 ==
  Retimed =>
    /\ FpsWarned <=>
         (~call.force /\ \E i \in 1..Len(NewTimes) :
                           IsFinite(NewTimes[i]) /\ NewTimes[i] < 20)
    /\ FpsWarned =>
         /\ Len(outcome.params) = 1
         /\ IsMeanHundredths(outcome.params[1], NewTimes)
    /\ call.force => ~FpsWarned

\* a frame below 20 ms among frames whose mean is not: 10 and 100 at "1X"
C4_Witness ==
  /\ Retimed /\ FpsWarned /\ Fresh
  /\ Len(In) = 2
  /\ NewTimes = <<10, 100>>
  /\ outcome.params = <<5500>>

\* the value of a string of digits, read left to right
RECURSIVE DigitsValue(_, _)
DigitsValue(s, acc) ==
  IF s = <<>> THEN acc ELSE DigitsValue(Tail(s), 10 * acc + DigitVal(Head(s)))

\* C5: an absolute duration spec sets every frame to that duration in ms:
\* "Nms" gives N on every frame, "Ns" gives N * 1000 ("40ms" -> 40, "2s" -> 2000).
C5_AbsoluteDuration ==
  (Retimed /\ call.force /\ AllDigits(NumPart(call.fps))
     /\ Suffix(call.fps) \in TimeSuffixes) =>
    LET N == DigitsValue(NumPart(call.fps), 0)
        ms == IF Suffix(call.fps) = <<"m", "s">> THEN N ELSE N * 1000
    IN /\ outcome.ok
       /\ \A i \in 1..Len(Out) : Out[i].dur = ms

\* d = Math.round(1000 / (n / den)): d - 1/2 <= 1000 * den / n < d + 1/2
IsRoundedFrameTime(d, n, den) ==
  /\ 2 * d * n <= 2000 * den + n
  /\ 2000 * den + n < 2 * (d + 1) * n

\* C6: "Nfps" gives every frame the duration round(1000/N); when that is below
\* 20 the call fails with fps-exceed-range-warn unless forced, and with force it
\* succeeds with every frame's duration round(1000/N).
C6_FpsSpec ==
  (Retimed /\ Suffix(call.fps) \in FpsSuffixes) =>
    LET N == parseFloat(NumPart(call.fps)) IN
    IF N.n = 0
      THEN outcome.ok /\ \A i \in 1..Len(Out) : ~IsFinite(Out[i].dur)
    ELSE \E d \in 0..1000 :
           /\ IsRoundedFrameTime(d, N.n, N.d)
           /\ (d < 20 /\ ~call.force) => FpsWarned
           /\ (d >= 20 \/ call.force) =>
                /\ outcome.ok
                /\ Len(Out) = Len(In)
                /\ \A i \in 1..Len(Out) : Out[i].dur = d /\ Out[i].px = In[i].px

C6_Witness ==
  /\ Retimed /\ call.fps = <<"6", "0", "f", "p", "s">> /\ call.force
  /\ outcome.ok
  /\ Len(Out) = 3
  /\ \A i \in 1..3 : Out[i].dur = 17

(***************************************************************************)
(* Properties of gifJoin.                                                  *)
(***************************************************************************)
\* every frame of every input image, images in order, frames in order
PooledIn == Flat(input)

CommonWidth == MaxOf([i \in 1..Len(PooledIn) |-> PooledIn[i].w])
CommonHeight == MaxOf([i \in 1..Len(PooledIn) |-> PooledIn[i].h])

Joined == Done("gifJoin") /\ outcome.ok

\* the picture drawn in output frame i
Drawn(i) == Out[i].px[1]

SameSize(i) == PooledIn[i].w = CommonWidth /\ PooledIn[i].h = CommonHeight

OnCommonCanvas(i) ==
  /\ Len(Out[i].px) = 1
  /\ Out[i].w = CommonWidth /\ Out[i].h = CommonHeight
  /\ Drawn(i).src = PooledIn[i].px[1].src

FitsCommonSize(i) == Drawn(i).w <= CommonWidth /\ Drawn(i).h <= CommonHeight

\* width and height scaled by one factor, each rounded to a whole pixel
Proportional(i) ==
  /\ 2 * (Drawn(i).w * PooledIn[i].h - Drawn(i).h * PooledIn[i].w)
       <= PooledIn[i].w + PooledIn[i].h
  /\ 2 * (Drawn(i).h * PooledIn[i].w - Drawn(i).w * PooledIn[i].h)
       <= PooledIn[i].w + PooledIn[i].h

\* C7 as stated: every pooled frame is put on a canvas of the common size; a
\* frame of another size is scaled proportionally by a factor that never
\* exceeds 1 (never enlarged), and its scaled sides fit the common size.
C7_NeverEnlarged ==
  Joined =>
    \A i \in 1..Len(Out) :
      /\ OnCommonCanvas(i)
      /\ ~SameSize(i) =>
           /\ Drawn(i).w <= PooledIn[i].w /\ Drawn(i).h <= PooledIn[i].h
           /\ Proportional(i)
           /\ FitsCommonSize(i)

\* C7 amended: every pooled frame is put on a canvas of the common size; a
\* frame of another size is scaled proportionally by a factor that is never
\* below 1 (never shrunk), and its scaled sides fit the common size.
C7_NeverShrunk ==
  Joined =>
    /\ Len(Out) = Len(PooledIn)
    /\ \A i \in 1..Len(Out) :
         /\ OnCommonCanvas(i)
         /\ SameSize(i) => Drawn(i).w = PooledIn[i].w /\ Drawn(i).h = PooledIn[i].h
         /\ ~SameSize(i) =>
              /\ Drawn(i).w >= PooledIn[i].w /\ Drawn(i).h >= PooledIn[i].h
              /\ Proportional(i)
              /\ FitsCommonSize(i)

\* the 30 x 70 frames joined with a 100 x 80 one are drawn 34 x 80
C7_Witness ==
  /\ Joined
  /\ Len(PooledIn) = 3
  /\ PooledIn[1].w = 100 /\ PooledIn[1].h = 80
  /\ PooledIn[2].w = 30 /\ PooledIn[2].h = 70
  /\ Drawn(2).w = 34 /\ Drawn(2).h = 80
  /\ Out[2].w = 100 /\ Out[2].h = 80

\* the duration gifJoin is asked for
Requested == IF call.duration.has THEN call.duration.v ELSE 100

ValidDuration == Requested >= 0 /\ (call.force \/ Requested >= 20)

NotEnough ==
  ~outcome.ok /\ outcome.key = "image-not-enough" /\ outcome.params = <<2>>

\* C8: given a valid duration, gifJoin fails with image-not-enough (minimum 2)
\* iff fewer than 2 frames are pooled from all images; otherwise the output has
\* one frame per pooled frame, in input order, each with the requested duration.
C8_JoinPoolsFrames ==
  (Done("gifJoin") /\ ValidDuration) =>
    /\ NotEnough <=> Len(PooledIn) < 2
    /\ Len(PooledIn) >= 2 =>
         /\ outcome.ok
         /\ Len(outcome.blobs) = 1
         /\ outcome.blobs[1].type = "image/gif"
         /\ Len(Out) = Len(PooledIn)
         /\ \A i \in 1..Len(Out) :
              /\ Drawn(i).src = PooledIn[i].px[1].src
              /\ Out[i].dur = Requested

\* one animated image of 2 frames is enough; the default duration is 100
C8_Witness ==
  /\ Joined
  /\ Len(input) = 1 /\ Len(PooledIn) = 2
  /\ ~call.duration.has
  /\ Out[1].dur = 100 /\ Out[2].dur = 100
  /\ PooledIn[1].dur # 100

(***************************************************************************)
(* Properties of horizontalJoin and verticalJoin.                          *)
(***************************************************************************)
DoneJoin == Done("horizontalJoin") \/ Done("verticalJoin")

AnimatedWarned == ~outcome.ok /\ outcome.key = "image-animated-warn"

SomeAnimated == \E i \in 1..Len(input) : Len(input[i]) > 1

\* C9: the joins called with fewer than 2 images fail with image-not-enough
\* (minimum 2), whatever force is, animated or not, before the colour is parsed.
C9_JoinMinimum == (DoneJoin /\ Len(input) < 2) => NotEnough

C9_Witness ==
  /\ Done("horizontalJoin") /\ NotEnough
  /\ Len(input) = 1 /\ SomeAnimated
  /\ ~call.force
  /\ call.bgColor = Some(<<"b", "o", "g", "u", "s">>)

\* C10: the joins called with at least 2 images fail with image-animated-warn
\* iff force is not set and some image has more than one frame; with force they
\* never do, and the result is one still image built of each first frame.
C10_AnimatedWarning ==
  (DoneJoin /\ Len(input) >= 2) =>
    /\ AnimatedWarned <=> (~call.force /\ SomeAnimated)
    /\ (call.force /\ ~call.bgColor.has) => outcome.ok
    /\ outcome.ok =>
         /\ Len(outcome.blobs) = 1
         /\ outcome.blobs[1].type = "image/png"
         /\ Len(Out) = 1
         /\ Len(Out[1].px) = Len(input) + 1
         /\ \A i \in 1..Len(input) : Out[1].px[i + 1].src = input[i][1].px[1].src

C10_Witness ==
  /\ Done("verticalJoin") /\ outcome.ok
  /\ call.force /\ SomeAnimated
  /\ Len(input) = 2 /\ Len(input[1]) = 2
  /\ Len(Out) = 1
  /\ Out[1].px[3].src = 3

\* the spacing of the call, and the layer of the canvas that holds input image i
\* (layer 1 is the background fill)
Spacing == IF call.spacing.has THEN call.spacing.v ELSE 10

Placed(i) == Out[1].px[i + 1]

\* sum over j < i of f[j]
RECURSIVE SumBelow(_, _)
SumBelow(f, i) == IF i <= 1 THEN 0 ELSE f[i - 1] + SumBelow(f, i - 1)

\* a x b scaled from c x d with one factor, to within one pixel
WithinOnePixel(a, b, c, d) == a * d - b * c < d /\ b * c - a * d < d

\* C11: horizontalJoin of n >= 2 images with spacing s (default 10): the canvas
\* height is the maximum input height, every image is resized to that height
\* keeping its ratio, the canvas width is the sum of the resized widths plus
\* s * (n - 1), image i is drawn at x = sum over j < i of (resized width j + s),
\* in input order, and the last image's right edge is the canvas width;
\* verticalJoin is the transpose.
C11_JoinGeometry ==
  (DoneJoin /\ outcome.ok) =>
    LET n == Len(input)
        s == Spacing
        horizontal == call.op = "horizontalJoin"
        \* the side along which the images are laid out, and the one across
        along(r) == IF horizontal THEN r.w ELSE r.h
        across(r) == IF horizontal THEN r.h ELSE r.w
        pos(r) == IF horizontal THEN r.x ELSE r.y
        off(r) == IF horizontal THEN r.y ELSE r.x
        common == MaxOf([i \in 1..n |-> across(input[i][1])])
        step == [i \in 1..n |-> along(Placed(i)) + s]
    IN /\ n >= 2
       /\ Len(Out) = 1 /\ Len(Out[1].px) = n + 1
       /\ across(Out[1]) = common
       /\ along(Out[1]) = SumSeq([i \in 1..n |-> along(Placed(i))]) + s * (n - 1)
       /\ \A i \in 1..n :
            /\ Placed(i).src = input[i][1].px[1].src
            /\ across(Placed(i)) = common
            /\ WithinOnePixel(along(Placed(i)), common,
                              along(input[i][1]), across(input[i][1]))
            /\ pos(Placed(i)) = SumBelow(step, i)
            /\ off(Placed(i)) = 0
       /\ pos(Placed(n)) + along(Placed(n)) = along(Out[1])

\* 100x50, 100x80 and 7x3 joined with spacing 5: widths 160, 100, 187 at
\* x = 0, 165, 270 on a canvas of 457 x 80
C11_Witness ==
  /\ Done("horizontalJoin") /\ outcome.ok
  /\ call.spacing = Some(5)
  /\ Len(input) = 3
  /\ input[1][1].w = 100 /\ input[1][1].h = 50
  /\ input[2][1].h = 80 /\ input[3][1].w = 7
  /\ Placed(1).w = 160 /\ Placed(2).x = 165 /\ Placed(3).x = 270
  /\ Out[1].w = 457 /\ Out[1].h = 80

(***************************************************************************)
(* Properties of the grid commands.                                        *)
(***************************************************************************)
\* the side of the centred square of the input, and its corner in the input
Side == Min(In[1].w, In[1].h)
SquareX == (In[1].w - Side) \div 2
SquareY == (In[1].h - Side) \div 2

\* cell i of the reply as a rectangle of the square: its corner and its sides
Cell(i) ==
  LET f == outcome.blobs[i].frames[1]
  IN [x |-> 0 - f.px[1].x - SquareX, y |-> 0 - f.px[1].y - SquareY,
      w |-> f.w, h |-> f.h]

Covers(c, x, y) == c.x <= x /\ x < c.x + c.w /\ c.y <= y /\ y < c.y + c.h

\* every pixel of the S x S square lies in exactly one of the n cells
Tiles(n) ==
  \A x \in 0..(Side - 1), y \in 0..(Side - 1) :
    Cardinality({i \in 1..n : Covers(Cell(i), x, y)}) = 1

\* the four cells in row-major order, of side ceil(S/2) but for the far column
\* and row, which end at S
FourCells ==
  LET a == (Side + 1) \div 2
  IN /\ Len(outcome.blobs) = 4
     /\ \A i \in 1..4 : outcome.blobs[i].type = "image/png"
     /\ Cell(1) = [x |-> 0, y |-> 0, w |-> a, h |-> a]
     /\ Cell(2) = [x |-> a, y |-> 0, w |-> Side - a, h |-> a]
     /\ Cell(3) = [x |-> 0, y |-> a, w |-> a, h |-> Side - a]
     /\ Cell(4) = [x |-> a, y |-> a, w |-> Side - a, h |-> Side - a]
     /\ Tiles(4)

\* C12 as stated: fourGrid on a source whose centred square has side S gives 4
\* cells in row-major order that tile the square without gap or overlap, of side
\* ceil(S/2) with the far column and row clipped to S, for every S.
C12_FourGridTiles == Done("fourGrid") => (outcome.ok /\ FourCells)

\* C12 amended: the same for every S >= 2 (a square of one pixel cannot be
\* split into four cells that do not overlap).
C12_FourGridTilesFromTwo ==
  (Done("fourGrid") /\ Side >= 2) => (outcome.ok /\ FourCells)

\* an odd square: 5 x 8 gives S = 5, cells 3x3, 2x3, 3x2, 2x2
C12_Witness ==
  /\ Done("fourGrid") /\ outcome.ok
  /\ In[1].w = 5 /\ In[1].h = 8
  /\ Cell(2) = [x |-> 3, y |-> 0, w |-> 2, h |-> 3]
  /\ Cell(4) = [x |-> 3, y |-> 3, w |-> 2, h |-> 2]

(***************************************************************************)
(* Properties of parseColor, seen through the background of the joins.     *)
(***************************************************************************)
\* the joins got past their checks of the images and parsed colour c
ParsedColor(c) ==
  /\ DoneJoin /\ Len(input) >= 2 /\ ~AnimatedWarned
  /\ call.bgColor = Some(c)

\* the background is filled with (r, g, b) and alpha a
FilledWith(r, g, b, a) ==
  /\ outcome.ok
  /\ Out[1].px[1].color.rgb = <<r, g, b>>
  /\ Out[1].px[1].color.a10 = 10 * a

InvalidColor(c) ==
  ~outcome.ok /\ outcome.key = "invalid-color" /\ outcome.params = <<c>>

\* C13: parseColor gives (255, 0, 0, 255) for "#ff0000", alpha round(a * 255)
\* for a functional string with a fractional alpha a < 1 ((0, 0, 0, 128) for
\* "rgba(0,0,0,0.5)"), and fails with invalid-color carrying the input when no
\* pattern matches ("bogus").
C13_ParseColor ==
  /\ ParsedColor(<<"#", "f", "f", "0", "0", "0", "0">>) => FilledWith(255, 0, 0, 255)
  /\ ParsedColor(<<"r", "g", "b", "a", "(", "0", ",", "0", ",", "0", ",",
                   "0", ".", "5", ")">>) => FilledWith(0, 0, 0, 128)
  /\ ParsedColor(<<"b", "o", "g", "u", "s">>) => InvalidColor(<<"b", "o", "g", "u", "s">>)

\* C14: the example of the invalid-color message, "rgb(255, 255, 255)", is
\* accepted by parseColor and gives (255, 255, 255, 255).
C14_MessageExample ==
  ParsedColor(<<"r", "g", "b", "(", "2", "5", "5", ",", " ", "2", "5", "5", ",", " ",
                "2", "5", "5", ")">>) => FilledWith(255, 255, 255, 255)

(***************************************************************************)
(* Properties of the size given to resize and crop.                        *)
(***************************************************************************)
\* the two sides of an absolute size "WxH" as the call gives them (<<>>: omitted)
GivenW == SubSeq(call.size, 1, DigitRunLen(call.size))
GivenH == Rest(call.size, DigitRunLen(call.size) + 2)

\* the call gives an absolute size with at least one side, none of them zero
AbsoluteSize ==
  /\ getSizeMatchReg(call.size, In[1].w, In[1].h).matched
  /\ GivenW # <<>> \/ GivenH # <<>>
  /\ GivenW # <<>> => DigitsValue(GivenW, 0) > 0
  /\ GivenH # <<>> => DigitsValue(GivenH, 0) > 0

InvalidArgFormat == ~outcome.ok /\ outcome.key = "invalid-arg-format"

\* C15: for the absolute size "WxH" a side that is given is taken literally and
\* a side that is omitted is derived from the source's aspect ratio ("x200" on a
\* 200x100 source gives height 200 and a width that keeps 2:1).
C15_OmittedFromRatio ==
  (Done("resize") /\ AbsoluteSize) =>
    /\ outcome.ok /\ Len(outcome.blobs) = 1
    /\ GivenW # <<>> => Out[1].w = DigitsValue(GivenW, 0)
    /\ GivenH # <<>> => Out[1].h = DigitsValue(GivenH, 0)
    /\ GivenW = <<>> => WithinOnePixel(Out[1].w, Out[1].h, In[1].w, In[1].h)
    /\ GivenH = <<>> => WithinOnePixel(Out[1].h, Out[1].w, In[1].h, In[1].w)

\* C15 amended: a side that is given is taken literally and a side that is
\* omitted is the source's own side, unchanged ("x200" on a 200x100 source gives
\* 200x200).
C15_OmittedFromSource ==
  (Done("resize") /\ AbsoluteSize) =>
    /\ outcome.ok /\ Len(outcome.blobs) = 1
    /\ outcome.blobs[1].type = "image/png"
    /\ Out[1].w = IF GivenW # <<>> THEN DigitsValue(GivenW, 0) ELSE In[1].w
    /\ Out[1].h = IF GivenH # <<>> THEN DigitsValue(GivenH, 0) ELSE In[1].h

C15_Witness ==
  /\ Done("resize") /\ outcome.ok
  /\ call.size = <<"x", "2", "0", "0">>
  /\ In[1].w = 200 /\ In[1].h = 100
  /\ Out[1].w = 200 /\ Out[1].h = 200

\* C16: every size given to resize or crop, against a source of positive sides,
\* either gives a width >= 1 and a height >= 1 or fails with invalid-arg-format.
C16_PositiveSize ==
  (Done("resize") \/ Done("crop")) =>
    \/ InvalidArgFormat
    \/ /\ outcome.ok /\ Len(outcome.blobs) = 1
       /\ Out[1].w >= 1 /\ Out[1].h >= 1

(***************************************************************************)
(* Properties of every operation.                                          *)
(***************************************************************************)
Failed == pc = "done" /\ ~outcome.ok

\* the keys of the errors the operations throw
ErrorKeys ==
  {"image-must-animated", "invalid-arg-format", "fps-exceed-range-warn",
   "value-too-small", "image-not-enough", "image-animated-warn", "invalid-color"}

MustBeAnimated == ~outcome.ok /\ outcome.key = "image-must-animated"

GifOps == {"gifReverse", "gifObverseReverse", "gifSplit", "gifChangeFps"}

\* C18: gifReverse, gifObverseReverse, gifSplit and gifChangeFps fail with
\* image-must-animated iff the input has exactly one frame, before any other
\* check or effect (gifChangeFps on a still image with an unparseable rate spec
\* reports image-must-animated, not invalid-arg-format).
C18_MustBeAnimated ==
  (pc = "done" /\ call.op \in GifOps) =>
    /\ MustBeAnimated <=> Len(In) = 1
    /\ Len(In) = 1 => Snapshot(heap, images) = input

C18_Witness ==
  /\ Done("gifChangeFps") /\ MustBeAnimated
  /\ Len(In) = 1
  /\ call.fps = <<"b", "o", "g", "u", "s">>
  /\ ~call.force

(***************************************************************************)
(* Properties of the encoding of the replies.                              *)
(***************************************************************************)
Blobs == outcome.blobs

IsPng(b) == b.type = "image/png" /\ Len(b.frames) = 1
IsGif(b) == b.type = "image/gif" /\ Len(b.frames) > 1

\* frame i of the reply shows the picture of frame j of the input
SamePicture(i, j) == Out[i].px[1].src = In[j].px[1].src

\* C19: imageSave encodes an image of exactly one frame as a PNG and an image of
\* more than one frame as a GIF that holds every frame in order with its
\* duration; gifSplit on N frames returns N PNG blobs in frame order.
C19_ImageSave ==
  (pc = "done" /\ outcome.ok) =>
    /\ \A i \in 1..Len(Blobs) : IsPng(Blobs[i]) \/ IsGif(Blobs[i])
    /\ call.op \in {"resize", "crop"} =>
         /\ Len(Blobs) = 1
         /\ Len(Out) = Len(In)
         /\ IF Len(In) = 1 THEN IsPng(Blobs[1]) ELSE IsGif(Blobs[1])
         /\ \A i \in 1..Len(Out) :
              SamePicture(i, i) /\ (Len(In) > 1 => Out[i].dur = In[i].dur)
    /\ call.op \in {"gifObverseReverse", "gifChangeFps"} =>
         /\ Len(Blobs) = 1 /\ IsGif(Blobs[1])
         /\ Out = FrameList(heap, images[1])
    /\ call.op \in {"horizontalJoin", "verticalJoin"} =>
         Len(Blobs) = 1 /\ IsPng(Blobs[1])
    /\ call.op = "gifSplit" =>
         /\ Len(Blobs) = Len(In)
         /\ \A i \in 1..Len(In) :
              IsPng(Blobs[i]) /\ Blobs[i].frames[1].px = In[i].px

C19_Witness ==
  /\ Done("gifSplit") /\ outcome.ok /\ Fresh
  /\ Len(In) = 3 /\ Len(Blobs) = 3
  /\ Blobs[3].type = "image/png"
  /\ Blobs[3].frames[1].px = Pixels(3, GifWidth, GifHeight)
  /\ Blobs[1].frames[1].px = Pixels(1, GifWidth, GifHeight)

\* the command whose reply came back as the present input, and the image it saved
Resent == trail[Len(trail)]

\* the input is the decoded GIF of an image that gifObverseReverse saved
Decoded ==
  pc = "fetched" /\ trail # <<>> /\ Resent.op = "gifObverseReverse"

\* C20: encoding an animated image with imageSaveGif and decoding the result
\* with readGif preserves the number of frames, their order, each frame's
\* duration in milliseconds, and the image's loop count.
C20_RoundTrip ==
  Decoded =>
    /\ FrameList(heap, images[1]) = Resent.image
    /\ heap[images[1]].loopCount = Resent.loopCount

(***************************************************************************)
(* Properties of the command handler.                                      *)
(***************************************************************************)
\* the handler has answered, or has thrown
Finished == pc \in {"replied", "threw"}

Rendered(key, params) ==
  /\ pc = "replied"
  /\ reply = [kind |-> "i18n", path |-> <<"image-tools", "errors", key>>,
              params |-> params, messages |-> <<>>]

FailedSources == {i \in 1..Len(call.sources) : call.sources[i] # "ok"}

\* C21: when the handler has finished with an OperationError of any stage (no
\* image in the message, a source that cannot be fetched or decoded, the
\* operation, the packaging of the archive) the reply is the message
\* image-tools.errors.<key> with the parameters of the error and carries no
\* image; any other error is thrown again as it is; a failed fetch is reported
\* as fetch-image-failed only if a source failed with an HTTP error and as
\* invalid-image only if one failed otherwise
C21_ErrorsRendered ==
  Finished =>
    /\ (~outcome.ok /\ outcome.key \notin {"TypeError", "Error"})
         => Rendered(outcome.key, outcome.params)
    /\ (~outcome.ok /\ outcome.key \in {"TypeError", "Error"})
         => (pc = "threw" /\ reply.kind = "thrown" /\ reply.path = <<outcome.key>>
             /\ reply.messages = <<>>)
    /\ outcome.ok => reply.kind \notin {"i18n", "thrown"}
    /\ call.sources = <<>> => Rendered("missing-image", <<>>)
    /\ FailedSources # {}
         => \E i \in FailedSources :
              Rendered(IF call.sources[i] = "http" THEN "fetch-image-failed"
                       ELSE "invalid-image", <<>>)
    /\ sending.zip \notin {"", "none"} => Rendered("zip-failed", <<>>)

C21_Witness ==
  /\ Finished
  /\ sending.zip = "7z"
  /\ reply.kind = "i18n"
  /\ \A i \in 1..Len(tasks) : tasks[i].state = "done"

\* Promise.all has been fulfilled: the blobs of the command are there
Results == pc = "done" /\ outcome.ok /\ tasks # <<>>

\* the number of the picture that frame f of a blob shows
PictureOf(blob, f) == blob.frames[f].px[1].src

\* C22: the blobs of a single-image command given k images are those of the
\* first image in the order the operation returns them, then those of the
\* second, and so on, in whatever order the tasks settled; the frames of the
\* output of gifHelper are those of the input, in order; and once a task has
\* failed there is no result at all, and the reply carries no image
C22_OrderedResults ==
  /\ (Results /\ call.op = "gifSplit")
       => /\ Len(outcome.blobs) = SumSeq([i \in 1..Len(input) |-> Len(input[i])])
          /\ \A m \in 1..Len(outcome.blobs) :
                /\ Len(outcome.blobs[m].frames) = 1
                /\ PictureOf(outcome.blobs[m], 1) = m
  /\ (Results /\ call.op = "fourGrid")
       => /\ Len(outcome.blobs) = 4 * Len(images)
          /\ \A i \in 1..Len(images) : \A c \in 1..4 :
                /\ PictureOf(outcome.blobs[4 * (i - 1) + c], 1) = input[i][1].px[1].src
                /\ outcome.blobs[4 * (i - 1) + c]
                     = fourGrid(heap, images[i]).outcome.blobs[c]
  /\ (Results /\ call.op = "gifHelper")
       => /\ Len(outcome.blobs) = 1
          /\ Len(outcome.blobs[1].frames) = Len(input[1])
          /\ \A j \in 1..Len(input[1]) :
                outcome.blobs[1].frames[j].px = input[1][j].px
  /\ (\E i \in 1..Len(tasks) : tasks[i].state = "failed")
       => (~outcome.ok /\ outcome.blobs = <<>> /\ reply.messages = <<>>)
  /\ (pc \notin {"idle", "fetched", "processing"} /\ call.op = "gifSplit"
        /\ \E i \in 1..Len(input) : Len(input[i]) = 1)
       => (~outcome.ok /\ reply.messages = <<>>)

C22_Witness ==
  /\ Results
  /\ call.op = "gifSplit"
  /\ Len(tasks) = 3
  /\ tasks[3].seq = 1
  /\ tasks[1].seq = 3
  /\ Len(outcome.blobs) > 6

(***************************************************************************)
(* Properties of the sizes of crop.                                        *)
(***************************************************************************)
\* crop was given a ratio and has answered with an image
CroppedToRatio ==
  /\ Done("crop") /\ outcome.ok
  /\ \E k \in 1..Len(call.size) : call.size[k] \in {":", "U+FF1A", "U+6BD4"}

\* the size the ratio given stands for against the image given
RatioSize == getRatioMatchReg(call.size, In[1].w, In[1].h)

\* C23: the size of a ratio "pw:ph" against a source of w x h is no wider than
\* w and no higher than h
C23_RatioWithinSource ==
  CroppedToRatio => (RatioSize.width <= In[1].w /\ RatioSize.height <= In[1].h)

\* the rectangle crop asks the library for
CropRect ==
  LET m == matchRegExps(getSizeMatchReg(call.size, In[1].w, In[1].h),
                        getRatioMatchReg(call.size, In[1].w, In[1].h))
  IN cropRectangle(m.width, m.height, In[1].w, In[1].h)

Cropped == Done("crop") /\ outcome.ok

\* C24 as it is stated: the rectangle of every accepted size lies within the
\* source, and is centred on every axis where the size fits
C24_RectWithinSource ==
  Cropped =>
    /\ CropRect.x2 >= 0 /\ CropRect.y2 >= 0
    /\ CropRect.x2 + 2 * CropRect.width <= 2 * In[1].w
    /\ CropRect.y2 + 2 * CropRect.height <= 2 * In[1].h
    /\ CropRect.width <= In[1].w => CropRect.x2 = In[1].w - CropRect.width
    /\ CropRect.height <= In[1].h => CropRect.y2 = In[1].h - CropRect.height

\* C24: the rectangle of every accepted size starts within the source; on an
\* axis where the size fits it is centred and ends within the source; on an
\* axis where the size does not fit it starts at 0 and ends beyond the source,
\* and the image returned is no larger than the source
C24_RectCentredWhereFits ==
  Cropped =>
    /\ CropRect.x2 >= 0 /\ CropRect.y2 >= 0
    /\ IF CropRect.width <= In[1].w
         THEN /\ CropRect.x2 = In[1].w - CropRect.width
              /\ CropRect.x2 + 2 * CropRect.width <= 2 * In[1].w
       ELSE CropRect.x2 = 0
    /\ IF CropRect.height <= In[1].h
         THEN /\ CropRect.y2 = In[1].h - CropRect.height
              /\ CropRect.y2 + 2 * CropRect.height <= 2 * In[1].h
       ELSE CropRect.y2 = 0
    /\ Out[1].w <= In[1].w /\ Out[1].h <= In[1].h

C24_Witness ==
  /\ Cropped
  /\ call.size = <<"1", "0", "0", "x", "1", "0", "0">>
  /\ In[1].w = 200 /\ In[1].h = 100
  /\ CropRect = [x2 |-> 100, y2 |-> 0, width |-> 100, height |-> 100]
  /\ Out[1].w = 100 /\ Out[1].h = 100

(***************************************************************************)
(* Properties of color-mask.                                               *)
(***************************************************************************)
Masked == Done("colorMask")

\* the colour given is a functional string, with the components MaskGroups
MaskGroups == functionalGroups(call.color)

Functional == hexGroup(call.color) = <<>> /\ MaskGroups.ok

ComponentsInRange ==
  /\ MaskGroups.r <= 255 /\ MaskGroups.g <= 255 /\ MaskGroups.b <= 255
  /\ MaskGroups.has => MaskGroups.a10 <= 2550

\* what parseColor makes of the colour given (alpha in tenths)
ColorTuple == parseColor(call.color)

\* C25: an explicit alpha a of a functional string gives alpha a when
\* 1 <= a <= 255 and a * 255 when a < 1, so that an explicit 0 gives 0 and
\* color-mask refuses it as it refuses every alpha but 255; every component of
\* a tuple returned is an integer of 0..255; a component out of range fails
\* with invalid-color
C25_ExplicitAlpha ==
  Masked =>
    /\ (Functional /\ ComponentsInRange /\ MaskGroups.has)
         => /\ ColorTuple.ok
            /\ ColorTuple.a10 = IF MaskGroups.a10 < 10 THEN 255 * MaskGroups.a10
                                ELSE MaskGroups.a10
    /\ (Functional /\ ComponentsInRange /\ MaskGroups.has /\ MaskGroups.a10 = 0)
         => (~outcome.ok /\ outcome.key = "alpha-not-supported")
    /\ ColorTuple.ok
         => /\ \A i \in 1..3 : ColorTuple.rgb[i] \in 0..255
            /\ ColorTuple.a10 \in 0..2550
            /\ ColorTuple.a10 % 10 = 0
    /\ (Functional /\ ~ComponentsInRange) => InvalidColor(call.color)

\* C26: color-mask on an animated image gives an animation of the same frames
\* in the same order, each with the duration of the frame it was made of
C26_MaskKeepsDurations ==
  (Masked /\ outcome.ok /\ Animated) =>
    /\ Len(Out) = Len(In)
    /\ \A i \in 1..Len(In) :
          /\ Out[i].px[1].src = In[i].px[1].src
          /\ Out[i].dur = In[i].dur

(***************************************************************************)
(* Properties of nineGrid.                                                 *)
(***************************************************************************)
\* the nine cells in row-major order, of side ceil(S/3) but for the far column
\* and row, which end at S: all within the square, none empty, none overlapping
NineCells ==
  LET a == (Side + 2) \div 3
      at(k) == (k - 1) * a
      side(k) == IF k = 3 THEN Side - 2 * a ELSE a
  IN /\ Len(outcome.blobs) = 9
     /\ \A r \in 1..3, c \in 1..3 :
          /\ outcome.blobs[3 * (r - 1) + c].type = "image/png"
          /\ Cell(3 * (r - 1) + c)
               = [x |-> at(c), y |-> at(r), w |-> side(c), h |-> side(r)]
     /\ \A i \in 1..9 :
          /\ Cell(i).w >= 1 /\ Cell(i).h >= 1
          /\ Cell(i).x + Cell(i).w <= Side /\ Cell(i).y + Cell(i).h <= Side
     /\ Tiles(9)

\* C27 as it is stated: nineGrid on a source whose centred square has side
\* S >= 1 gives the 9 cells of NineCells
C27_NineGridTiles ==
  (Done("nineGrid") /\ Side >= 1) => (outcome.ok /\ NineCells)

\* C27: nineGrid on a source whose centred square has side S = 3 or S >= 5
\* gives 9 cells in row-major order that partition the square: cells of side
\* ceil(S/3), the final column and row ending at S, no edge beyond S, no
\* overlap, every cell of positive width and height
C27_NineGridTilesFromThree ==
  (Done("nineGrid") /\ (Side = 3 \/ Side >= 5)) => (outcome.ok /\ NineCells)

\* 8 x 5 gives S = 5, a = 2: columns and rows of 2, 2 and 1
C27_Witness ==
  /\ Done("nineGrid") /\ outcome.ok
  /\ In[1].w = 8 /\ In[1].h = 5
  /\ Cell(3) = [x |-> 4, y |-> 0, w |-> 1, h |-> 2]
  /\ Cell(9) = [x |-> 4, y |-> 4, w |-> 1, h |-> 1]

(***************************************************************************)
(* The durations gifChangeFps leaves.                                      *)
(***************************************************************************)
\* C28: after gifChangeFps has succeeded, forced or not, the reply has the
\* frames of the input in their order, and every duration is a finite number of
\* milliseconds that is not negative
C28_FiniteDurations ==
  (Done("gifChangeFps") /\ outcome.ok) =>
    /\ Len(Out) = Len(In)
    /\ \A i \in 1..Len(In) :
          /\ Out[i].px = In[i].px
          /\ Out[i].dur \notin {Infinity, NaN}
          /\ Out[i].dur >= 0

(***************************************************************************)
(* Properties of the delivery.                                             *)
(***************************************************************************)
\* the generator of chunks(blobs, overflowThreshold) is running or has ended
Chunked == pc \in {"chunking", "replied"} /\ sending.type \in {"multi", "forward"}
             /\ sending.slices # <<>>

\* the slices yielded so far are the elements of arr from its start, in order,
\* every slice but the last of n elements
SlicesOfArr ==
  LET sl == sending.slices
      n == sending.n
  IN /\ Flat(sl) = SubSeq(outcome.blobs, 1, Len(Flat(sl)))
     /\ \A k \in 1..Len(sl) : Len(sl[k]) >= 1 /\ Len(sl[k]) <= n
     /\ \A k \in 1..(Len(sl) - 1) : Len(sl[k]) = n
     /\ pc = "replied" => Flat(sl) = outcome.blobs

\* C29: the delivery of the blobs ends whatever overflowThreshold is, zero and
\* negative included: once the blobs are there the handler answers or throws,
\* the generator chunks(arr, n) having come to its end; and for n >= 1 the
\* slices joined are arr, each of at most n elements and all but the last of
\* exactly n
C29_DeliveryTerminates ==
  /\ Results ~> Finished
  /\ []((Chunked /\ sending.n >= 1) => SlicesOfArr)

\* zipBlobs has returned or has thrown
ZipFinished == sending.zip # ""

\* C30: whenever zipBlobs has finished, by returning or by throwing because a
\* blob could not be written, the output directory could not be created or 7z
\* failed, the temporary images directory of the call no longer exists
C30_TmpImagesRemoved ==
  ZipFinished => tmpImagesDir \notin tmpFiles

====
